---------------------------- MODULE Spec2Model ----------------------------
(***************************************************************************)
(* EventHandler (R-Michi/EventHandler, release 1.3.1): the blocking        *)
(* listener (listener_src.cpp), the event handler (event_handler_src.cpp)  *)
(* and the KeyEvent of the example application, as one state machine.      *)
(*                                                                         *)
(* Threads: one controller thread that calls the EventHandler API and      *)
(* registers events, one producer thread that calls KeyEvent::push, and    *)
(* one worker thread per started listener (Listener::listen).              *)
(***************************************************************************)
EXTENDS Naturals, Sequences, FiniteSets

\* ------------------------------------------------------------------ sets
NULL == "nullptr"

Listeners == {"L1", "L2"}

\* The KeyEvent objects of the example: MyListener ("L1") holds key_event1
\* and key_event2 ("E1", "E2"), MyListener2 ("L2") holds key_event1 ("E3").
\* std::map<EventBase*, ...> iterates in address order, which is the order
\* of this sequence.
EvOrder == <<"E1", "E2", "E3">>

Events == {EvOrder[n] : n \in 1..Len(EvOrder)}

\* the member events of a listener object, in declaration order
member_events(l) == IF l = "L1" THEN <<"E1", "E2">> ELSE <<"E3">>

\* Event objects of a second event type, MyEvent : public Event<MyEvent>,
\* which are not members of a listener
Others == {"M1", "M2"}

Objs == Events \cup Others

Types == {"KeyEvent", "MyEvent"}

type_of(o) == IF o \in Events THEN "KeyEvent" ELSE "MyEvent"

Funcs == {"on_keybd1", "on_keybd2"}

\* the characters pushed: the n-th call of push passes the character n
Chars == 1..9

\* event_queue.size() < 4 in KeyEvent::push
QueueCap == 4

\* bounds of the model: calls of register_event (where registration is an
\* action), length of the handler's collection, calls of push
MaxReg == 4

MaxListeners == 2

MaxPush == 2

VARIABLES
    \* EventHandler
    hrunning, listeners, listener_type,
    \* Listener
    running, event2func, alive,
    \* Listener::listen, one worker per listener
    pc, event, idx, iter,
    \* KeyEvent objects and the registries Event<T>::instances, one per type
    event_queue, cv, instances,
    \* all event objects: lifetime, the member instance_iter, and the history
    \* of their construction
    estate, instance_iter, born,
    \* producer thread inside KeyEvent::push
    ppc, pit, pch, npush,
    \* controller thread inside an EventHandler call
    cpc, ck, cret, ccleanup,
    \* undefined behaviour that has happened, and whether the process died of it
    ub, halted,
    \* history: calls and resets of the worker's current cycle, events the
    \* current predicate evaluation found untriggered, the last API calls
    trace, scanned, hcall, lcall, lastSS, notified,
    \* history of the queues: the event that the cycle just completed left
    \* triggered (until the next predicate evaluation has chosen), what each
    \* callback read with get_char(), what push appended
    refire, recorded, accepted,
    \* the polling listener of release 1.2.0: the flag thread_working, the
    \* locals main_condition and sub_condition of its worker, and what the
    \* scan pass in progress has evaluated so far
    thread_working, mcond, scond, evald

hvars == <<hrunning, listeners, listener_type>>
lvars == <<running, event2func, alive>>
wvars == <<pc, event, idx, iter>>
evars == <<event_queue, cv, instances>>
pvars == <<ppc, pit, pch, npush>>
cvars == <<cpc, ck, cret, ccleanup>>
fvars == <<ub, halted>>
gvars == <<trace, scanned, hcall, lcall, lastSS, notified>>

qvars == <<refire, recorded, accepted>>
rvars == <<estate, instance_iter, born>>
pollvars == <<thread_working, mcond, scond, evald>>

vars == <<hvars, lvars, wvars, evars, pvars, cvars, fvars, gvars, qvars, rvars,
          pollvars>>

\* ------------------------------------------------------------- helpers
\* the keys of event2func of listener l in iteration order
Keys(l) == SelectSeq(EvOrder, LAMBDA e : event2func[l][e] # <<>>)

\* the position of event e in the table of listener l (0 if absent)
KeyPos(l, e) ==
    IF \E n \in 1..Len(Keys(l)) : Keys(l)[n] = e
    THEN CHOOSE n \in 1..Len(Keys(l)) : Keys(l)[n] = e
    ELSE 0

\* one registry for all event types (a static member of a class that is
\* not a template)
registry_shared(o) == "KeyEvent"

\* the static list an event's constructor and destructor work on:
\* Event<T>::instances, a static member of the class template, one per T
registry_of(o) == type_of(o)

\* Event<T>::get_instances
get_instances(T) == instances[T]

\* std::list::erase of the node that object n pushed
erase(insts, n) == SelectSeq(insts, LAMBDA x : x # n)

\* KeyEvent::trigger
trigger(e) == Len(event_queue[e]) > 0

\* get_char that returns the value at the back of the queue
get_char_back(e) == event_queue[e][Len(event_queue[e])]

\* KeyEvent::get_char
get_char(e) == event_queue[e][1]

\* std::condition_variable::notify_one on the cv of listener l: the one
\* thread that can wait on it is l's worker, which then re-evaluates the
\* predicate of cv.wait
notify_one(l, p) == IF p[l] = "waiting" THEN [p EXCEPT ![l] = "pred"] ELSE p

\* Registered with the vector of the event replaced instead of extended
Registered_overwrite(tab, e, f) == [tab EXCEPT ![e] = <<f>>]

\* the effect of register_event on a registration table and on the binding
\* of the event: event2func[&event].push_back(func); event.set_cv(&cv)
Registered(tab, e, f) == [tab EXCEPT ![e] = Append(@, f)]

\* Bound that keeps the binding an event already has
Bound_first(l, e, cvs) == IF cvs[e] = NULL THEN [cvs EXCEPT ![e] = l] ELSE cvs

Bound(l, e, cvs) == [cvs EXCEPT ![e] = l]

\* the calls of register_event made by MyListener::init and MyListener2::init
init_calls(l) ==
    IF l = "L1"
    THEN << <<"E1", "on_keybd1">>, <<"E2", "on_keybd2">> >>
    ELSE << <<"E3", "on_keybd1">>, <<"E3", "on_keybd2">> >>

EmptyTable == [e \in Events |-> <<>>]

RECURSIVE Constructed(_, _)
Constructed(l, n) ==
    IF n = 0 THEN EmptyTable
    ELSE Registered(Constructed(l, n - 1), init_calls(l)[n][1], init_calls(l)[n][2])

NoCall == [op |-> "none", arg |-> NULL, was_running |-> FALSE, before |-> <<>>]

\* nothing was pushed yet: the queues are empty
InitQueues ==
    /\ event_queue = [e \in Events |-> <<>>]
    /\ npush = 0
    /\ notified = [e \in Events |-> FALSE]
    /\ accepted = [e \in Events |-> <<>>]

\* the handler, the listeners and the threads before anything is started
InitThreads ==
    /\ hrunning = FALSE
    /\ listeners = <<>>
    /\ listener_type \in {"DYNAMIC_LISTENER", "STATIC_LISTENER"}
    /\ running = [l \in Listeners |-> FALSE]
    /\ alive = [l \in Listeners |-> TRUE]
    /\ pc = [l \in Listeners |-> "none"]
    /\ event = [l \in Listeners |-> NULL]
    /\ idx = [l \in Listeners |-> 0]
    /\ iter = [l \in Listeners |-> 0]
    /\ ppc = "idle"
    /\ pit = 0
    /\ pch = 0
    /\ cpc = "idle"
    /\ ck = 0
    /\ cret = "idle"
    /\ ccleanup = FALSE
    /\ ub = "none"
    /\ halted = FALSE
    /\ trace = [l \in Listeners |-> <<>>]
    /\ scanned = [l \in Listeners |-> {}]
    /\ hcall = NoCall
    /\ lcall = NoCall
    /\ lastSS = "none"
    /\ refire = [l \in Listeners |-> NULL]
    /\ recorded = [e \in Events |-> <<>>]
    /\ thread_working = [l \in Listeners |-> FALSE]
    /\ mcond = [l \in Listeners |-> FALSE]
    /\ scond = [l \in Listeners |-> FALSE]
    /\ evald = [l \in Listeners |-> <<>>]

\* everything but the registration tables and the bindings of the events
InitRest == InitThreads /\ InitQueues

\* the event objects of the example: the members of the two listeners,
\* constructed with them, each in the registry of its type
InitObjects ==
    /\ instances = [T \in Types |-> IF T = "KeyEvent" THEN EvOrder ELSE <<>>]
    /\ estate = [o \in Objs |-> IF o \in Events THEN "live" ELSE "none"]
    /\ instance_iter = [o \in Objs |-> IF o \in Events THEN o ELSE NULL]
    /\ born = EvOrder

\* the listener whose member the event is
owner(e) ==
    IF \E l \in Listeners : \E n \in 1..Len(member_events(l)) : member_events(l)[n] = e
    THEN CHOOSE l \in Listeners :
             \E n \in 1..Len(member_events(l)) : member_events(l)[n] = e
    ELSE NULL

\* The example application after init_event_handler has constructed
\* MyListener and MyListener2, whose constructors register their events, and
\* before the handler is given the listeners.
Init ==
    /\ InitRest
    /\ InitObjects
    /\ event2func = [l \in Listeners |-> Constructed(l, Len(init_calls(l)))]
    /\ cv = [e \in Events |-> owner(e)]

\* An application in which two listeners observe one event: the calls of
\* register_event of the example, and then MyListener2 registers key_event2
\* of MyListener as well
shared_calls ==
    << <<"L1", "E1", "on_keybd1">>, <<"L1", "E2", "on_keybd2">>,
       <<"L2", "E3", "on_keybd1">>, <<"L2", "E3", "on_keybd2">>,
       <<"L2", "E2", "on_keybd1">> >>

\* the table of listener l and the bindings of the events after the first n
\* of these calls
RECURSIVE TableAfter(_, _)
TableAfter(l, n) ==
    IF n = 0 THEN EmptyTable
    ELSE IF shared_calls[n][1] = l
         THEN Registered(TableAfter(l, n - 1), shared_calls[n][2], shared_calls[n][3])
         ELSE TableAfter(l, n - 1)

RECURSIVE BindingAfter(_)
BindingAfter(n) ==
    IF n = 0 THEN [e \in Events |-> NULL]
    ELSE Bound(shared_calls[n][1], shared_calls[n][2], BindingAfter(n - 1))

\* The listeners that share an event are borrowed by the handler: they are
\* not destroyed by cleanup()
InitShared ==
    /\ InitRest
    /\ InitObjects
    /\ listener_type = "STATIC_LISTENER"
    /\ event2func = [l \in Listeners |-> TableAfter(l, Len(shared_calls))]
    /\ cv = BindingAfter(Len(shared_calls))

\* Listener and event objects on which nothing is registered yet
InitReg ==
    /\ InitRest
    /\ InitObjects
    /\ event2func = [l \in Listeners |-> EmptyTable]
    /\ cv = [e \in Events |-> NULL]


\* --------------------------------------------------- Listener::listen
\* while(l->running) and the declarations of the two local pointers; when
\* the flag is cleared the thread function returns (lk.unlock, line 85) and
\* its locals are gone
listen_while(l) ==
    /\ ~halted
    /\ UNCHANGED pollvars
    /\ UNCHANGED rvars
    /\ pc[l] = "loop"
    /\ IF running[l]
       THEN /\ pc' = [pc EXCEPT ![l] = "pred"]
            /\ event' = [event EXCEPT ![l] = NULL]
            /\ trace' = [trace EXCEPT ![l] = <<>>]
       ELSE /\ pc' = [pc EXCEPT ![l] = "exited"]
            /\ event' = [event EXCEPT ![l] = NULL]
            /\ trace' = [trace EXCEPT ![l] = <<>>]
    /\ refire' = IF running[l] THEN refire ELSE [refire EXCEPT ![l] = NULL]
    /\ UNCHANGED <<recorded, accepted>>
    /\ scanned' = [scanned EXCEPT ![l] = {}]
    /\ UNCHANGED <<hvars, lvars, idx, iter, evars, pvars, cvars, fvars,
                   hcall, lcall, lastSS, notified>>

\* wait_pred whose scan goes on behind the event serviced last (round robin)
\* instead of starting at the head of the table
wait_pred_resume(l) ==
    /\ ~halted
    /\ UNCHANGED pollvars
    /\ UNCHANGED rvars
    /\ UNCHANGED <<recorded, accepted>>
    /\ pc[l] = "pred"
    /\ IF ~running[l]
       THEN /\ pc' = [pc EXCEPT ![l] = "check"]
            /\ UNCHANGED iter
       ELSE /\ pc' = [pc EXCEPT ![l] = "scan"]
            /\ iter' = [iter EXCEPT ![l] = KeyPos(l, refire[l]) + 1]
    /\ scanned' = [scanned EXCEPT ![l] = {}]
    /\ UNCHANGED <<hvars, lvars, event, idx, evars, pvars, cvars, fvars,
                   trace, hcall, lcall, lastSS, notified>>
    /\ refire' = IF pc'[l] = "scan" THEN refire ELSE [refire EXCEPT ![l] = NULL]

\* the predicate of cv.wait, first operand: (bool)!l->running.  True ends
\* the wait; false goes on to event_has_happened
wait_pred(l) ==
    /\ ~halted
    /\ UNCHANGED pollvars
    /\ UNCHANGED rvars
    /\ UNCHANGED <<recorded, accepted>>
    /\ pc[l] = "pred"
    /\ IF ~running[l]
       THEN /\ pc' = [pc EXCEPT ![l] = "check"]
            /\ UNCHANGED iter
       ELSE /\ pc' = [pc EXCEPT ![l] = "scan"]
            /\ iter' = [iter EXCEPT ![l] = 1]
    /\ scanned' = [scanned EXCEPT ![l] = {}]
    /\ UNCHANGED <<hvars, lvars, event, idx, evars, pvars, cvars, fvars,
                   trace, hcall, lcall, lastSS, notified>>
    /\ refire' = IF pc'[l] = "scan" THEN refire ELSE [refire EXCEPT ![l] = NULL]

\* event_has_happened without the return inside the loop: the last
\* triggered event of the table is the one returned
event_has_happened_last(l) ==
    /\ ~halted
    /\ UNCHANGED pollvars
    /\ UNCHANGED rvars
    /\ UNCHANGED <<recorded, accepted>>
    /\ pc[l] = "scan"
    /\ LET keys == Keys(l) IN
       IF iter[l] > Len(keys)
       THEN /\ pc' = [pc EXCEPT ![l] = IF event[l] = NULL THEN "block" ELSE "check"]
            /\ iter' = [iter EXCEPT ![l] = 0]
            /\ UNCHANGED <<event, scanned>>
       ELSE IF trigger(keys[iter[l]])
       THEN /\ event' = [event EXCEPT ![l] = keys[iter[l]]]
            /\ iter' = [iter EXCEPT ![l] = @ + 1]
            /\ UNCHANGED <<pc, scanned>>
       ELSE /\ iter' = [iter EXCEPT ![l] = @ + 1]
            /\ scanned' = [scanned EXCEPT ![l] = @ \cup {keys[iter[l]]}]
            /\ UNCHANGED <<event, pc>>
    /\ UNCHANGED <<hvars, lvars, idx, evars, pvars, cvars, fvars,
                   trace, hcall, lcall, lastSS, notified>>
    /\ refire' = IF pc'[l] = "scan" THEN refire ELSE [refire EXCEPT ![l] = NULL]

\* event_has_happened that returns false from inside the loop: only the
\* first event of the table is tested
event_has_happened_first(l) ==
    /\ ~halted
    /\ UNCHANGED pollvars
    /\ UNCHANGED rvars
    /\ UNCHANGED <<recorded, accepted>>
    /\ pc[l] = "scan"
    /\ LET keys == Keys(l) IN
       IF iter[l] > Len(keys) \/ iter[l] > 1
       THEN /\ event' = [event EXCEPT ![l] = NULL]
            /\ pc' = [pc EXCEPT ![l] = "block"]
            /\ iter' = [iter EXCEPT ![l] = 0]
            /\ UNCHANGED scanned
       ELSE IF trigger(keys[iter[l]])
       THEN /\ event' = [event EXCEPT ![l] = keys[iter[l]]]
            /\ pc' = [pc EXCEPT ![l] = "check"]
            /\ iter' = [iter EXCEPT ![l] = 0]
            /\ UNCHANGED scanned
       ELSE /\ iter' = [iter EXCEPT ![l] = @ + 1]
            /\ scanned' = [scanned EXCEPT ![l] = @ \cup {keys[iter[l]]}]
            /\ UNCHANGED <<event, pc>>
    /\ UNCHANGED <<hvars, lvars, idx, evars, pvars, cvars, fvars,
                   trace, hcall, lcall, lastSS, notified>>
    /\ refire' = IF pc'[l] = "scan" THEN refire ELSE [refire EXCEPT ![l] = NULL]

\* event_has_happened that returns true also when no event is triggered:
\* the wait ends with the null pointers while the listener is running
event_has_happened_true(l) ==
    /\ ~halted
    /\ UNCHANGED pollvars
    /\ UNCHANGED rvars
    /\ UNCHANGED <<recorded, accepted>>
    /\ pc[l] = "scan"
    /\ LET keys == Keys(l) IN
       IF iter[l] > Len(keys)
       THEN /\ event' = [event EXCEPT ![l] = NULL]
            /\ pc' = [pc EXCEPT ![l] = "check"]
            /\ iter' = [iter EXCEPT ![l] = 0]
            /\ UNCHANGED scanned
       ELSE IF trigger(keys[iter[l]])
       THEN /\ event' = [event EXCEPT ![l] = keys[iter[l]]]
            /\ pc' = [pc EXCEPT ![l] = "check"]
            /\ iter' = [iter EXCEPT ![l] = 0]
            /\ UNCHANGED scanned
       ELSE /\ iter' = [iter EXCEPT ![l] = @ + 1]
            /\ scanned' = [scanned EXCEPT ![l] = @ \cup {keys[iter[l]]}]
            /\ UNCHANGED <<event, pc>>
    /\ UNCHANGED <<hvars, lvars, idx, evars, pvars, cvars, fvars,
                   trace, hcall, lcall, lastSS, notified>>
    /\ refire' = IF pc'[l] = "scan" THEN refire ELSE [refire EXCEPT ![l] = NULL]

\* one iteration of the loop of event_has_happened, or its end: the first
\* triggered event is returned and ends the wait; with none, the pointers
\* are nulled, the predicate is false and the thread is about to block
event_has_happened(l) ==
    /\ ~halted
    /\ UNCHANGED pollvars
    /\ UNCHANGED rvars
    /\ UNCHANGED <<recorded, accepted>>
    /\ pc[l] = "scan"
    /\ LET keys == Keys(l) IN
       IF iter[l] > Len(keys)
       THEN /\ event' = [event EXCEPT ![l] = NULL]
            /\ pc' = [pc EXCEPT ![l] = "block"]
            /\ iter' = [iter EXCEPT ![l] = 0]
            /\ UNCHANGED scanned
       ELSE IF trigger(keys[iter[l]])
       THEN /\ event' = [event EXCEPT ![l] = keys[iter[l]]]
            /\ pc' = [pc EXCEPT ![l] = "check"]
            /\ iter' = [iter EXCEPT ![l] = 0]
            /\ UNCHANGED scanned
       ELSE /\ iter' = [iter EXCEPT ![l] = @ + 1]
            /\ scanned' = [scanned EXCEPT ![l] = @ \cup {keys[iter[l]]}]
            /\ UNCHANGED <<event, pc>>
    /\ UNCHANGED <<hvars, lvars, idx, evars, pvars, cvars, fvars,
                   trace, hcall, lcall, lastSS, notified>>
    /\ refire' = IF pc'[l] = "scan" THEN refire ELSE [refire EXCEPT ![l] = NULL]

\* the predicate was false: condition_variable::wait blocks the thread.  The
\* mutex of the wait is local to listen, so nothing orders this step with a
\* producer's or stop()'s notify_one
wait_block(l) ==
    /\ ~halted
    /\ UNCHANGED pollvars
    /\ UNCHANGED rvars
    /\ UNCHANGED qvars
    /\ pc[l] = "block"
    /\ pc' = [pc EXCEPT ![l] = "waiting"]
    /\ UNCHANGED <<hvars, lvars, event, idx, iter, evars, pvars, cvars, fvars, gvars>>

\* a spurious wakeup, which condition_variable::wait permits and never promises
spurious_wake(l) ==
    /\ ~halted
    /\ UNCHANGED pollvars
    /\ UNCHANGED rvars
    /\ UNCHANGED qvars
    /\ pc[l] = "waiting"
    /\ pc' = [pc EXCEPT ![l] = "pred"]
    /\ UNCHANGED <<hvars, lvars, event, idx, iter, evars, pvars, cvars, fvars, gvars>>

\* listen_check without the test of the flag: whatever the predicate found
\* is dispatched
listen_check_always(l) ==
    /\ ~halted
    /\ UNCHANGED pollvars
    /\ UNCHANGED rvars
    /\ UNCHANGED qvars
    /\ pc[l] = "check"
    /\ IF event[l] = NULL
       THEN /\ ub' = "null_deref"
            /\ halted' = TRUE
            /\ UNCHANGED <<pc, idx>>
       ELSE /\ pc' = [pc EXCEPT ![l] = "call"]
            /\ idx' = [idx EXCEPT ![l] = 1]
            /\ UNCHANGED fvars
    /\ UNCHANGED <<hvars, lvars, event, iter, evars, pvars, cvars, gvars>>

\* if(l->running) after the wait; event_functions->size() with the pointer
\* null is a null dereference
listen_check(l) ==
    /\ ~halted
    /\ UNCHANGED pollvars
    /\ UNCHANGED rvars
    /\ UNCHANGED qvars
    /\ pc[l] = "check"
    /\ IF ~running[l]
       THEN /\ pc' = [pc EXCEPT ![l] = "loop"]
            /\ UNCHANGED <<idx, fvars>>
       ELSE IF event[l] = NULL
       THEN /\ ub' = "null_deref"
            /\ halted' = TRUE
            /\ UNCHANGED <<pc, idx>>
       ELSE /\ pc' = [pc EXCEPT ![l] = "call"]
            /\ idx' = [idx EXCEPT ![l] = 1]
            /\ UNCHANGED fvars
    /\ UNCHANGED <<hvars, lvars, event, iter, evars, pvars, cvars, gvars>>

\* listen_call with the loop bound off by one: the last callback is skipped
listen_call_short(l) ==
    /\ ~halted
    /\ UNCHANGED pollvars
    /\ UNCHANGED rvars
    /\ pc[l] = "call"
    /\ LET fs == event2func[l][event[l]] IN
       IF idx[l] < Len(fs)
       THEN /\ trace' = [trace EXCEPT ![l] =
                           Append(@, [op |-> "call", e |-> event[l], f |-> fs[idx[l]]])]
            /\ idx' = [idx EXCEPT ![l] = @ + 1]
            /\ UNCHANGED pc
            /\ IF event_queue[event[l]] = <<>>
               THEN /\ ub' = "terminate"
                    /\ halted' = TRUE
                    /\ UNCHANGED recorded
               ELSE /\ recorded' = [recorded EXCEPT ![event[l]] =
                                        Append(@, <<fs[idx[l]], get_char(event[l])>>)]
                    /\ UNCHANGED fvars
       ELSE /\ pc' = [pc EXCEPT ![l] = "reset"]
            /\ idx' = [idx EXCEPT ![l] = 0]
            /\ UNCHANGED <<trace, recorded, fvars>>
    /\ UNCHANGED <<refire, accepted>>
    /\ UNCHANGED <<hvars, lvars, event, iter, evars, pvars, cvars,
                   scanned, hcall, lcall, lastSS, notified>>

\* for(i < event_functions->size()) event_functions->at(i)(*event): the
\* callbacks of the example print event.get_char(), which is
\* event_queue.at(0); at() on an empty deque throws, and an exception that
\* leaves the thread function calls std::terminate
listen_call(l) ==
    /\ ~halted
    /\ UNCHANGED pollvars
    /\ UNCHANGED rvars
    /\ pc[l] = "call"
    /\ LET fs == event2func[l][event[l]] IN
       IF idx[l] <= Len(fs)
       THEN /\ trace' = [trace EXCEPT ![l] =
                           Append(@, [op |-> "call", e |-> event[l], f |-> fs[idx[l]]])]
            /\ idx' = [idx EXCEPT ![l] = @ + 1]
            /\ UNCHANGED pc
            /\ IF event_queue[event[l]] = <<>>
               THEN /\ ub' = "terminate"
                    /\ halted' = TRUE
                    /\ UNCHANGED recorded
               ELSE /\ recorded' = [recorded EXCEPT ![event[l]] =
                                        Append(@, <<fs[idx[l]], get_char(event[l])>>)]
                    /\ UNCHANGED fvars
       ELSE /\ pc' = [pc EXCEPT ![l] = "reset"]
            /\ idx' = [idx EXCEPT ![l] = 0]
            /\ UNCHANGED <<trace, recorded, fvars>>
    /\ UNCHANGED <<refire, accepted>>
    /\ UNCHANGED <<hvars, lvars, event, iter, evars, pvars, cvars,
                   scanned, hcall, lcall, lastSS, notified>>

\* event->reset(): KeyEvent::reset pops the front of the queue under the
\* event's mutex; pop_front of an empty deque is undefined
listen_reset(l) ==
    /\ ~halted
    /\ UNCHANGED pollvars
    /\ UNCHANGED rvars
    /\ pc[l] = "reset"
    /\ LET e == event[l] IN
       /\ IF event_queue[e] = <<>>
          THEN /\ ub' = "pop_empty"
               /\ halted' \in BOOLEAN
               /\ UNCHANGED event_queue
          ELSE /\ event_queue' = [event_queue EXCEPT ![e] = Tail(@)]
               /\ UNCHANGED fvars
       /\ refire' = [refire EXCEPT ![l] = IF Len(event_queue[e]) > 1 THEN e ELSE NULL]
       /\ UNCHANGED <<recorded, accepted>>
       /\ trace' = [trace EXCEPT ![l] = Append(@, [op |-> "reset", e |-> e, f |-> NULL])]
       /\ notified' = [notified EXCEPT ![e] = FALSE]
    /\ pc' = [pc EXCEPT ![l] = "loop"]
    /\ UNCHANGED <<hvars, lvars, event, idx, iter, cv, instances, pvars, cvars,
                   scanned, hcall, lcall, lastSS>>

Worker(l) ==
    \/ listen_while(l)
    \/ wait_pred(l)
    \/ event_has_happened(l)
    \/ wait_block(l)
    \/ listen_check(l)
    \/ listen_call(l)
    \/ listen_reset(l)

\* ----------------------------------------------------- KeyEvent::push
\* no push is made while cleanup() destroys the listeners and their events
PushAllowed == ~ccleanup

\* a producer calls KeyEvent::push(c)
push_call(c) ==
    /\ ~halted
    /\ UNCHANGED pollvars
    /\ UNCHANGED rvars
    /\ UNCHANGED qvars
    /\ ppc = "idle"
    /\ npush' = npush + 1
    /\ pch' = c
    /\ pit' = 1
    /\ ppc' = IF get_instances("KeyEvent") = <<>> THEN "idle" ELSE "chk"
    /\ UNCHANGED <<hvars, lvars, wvars, evars, cvars, fvars, gvars>>

\* push_check that passes over an instance whose queue is full, without the
\* call of internal
push_check_skipfull ==
    /\ ~halted
    /\ UNCHANGED pollvars
    /\ UNCHANGED rvars
    /\ UNCHANGED qvars
    /\ ppc = "chk"
    /\ IF Len(event_queue[get_instances("KeyEvent")[pit]]) < QueueCap
       THEN /\ ppc' = "push"
            /\ UNCHANGED pit
       ELSE IF pit < Len(get_instances("KeyEvent"))
       THEN /\ pit' = pit + 1
            /\ ppc' = "chk"
       ELSE /\ pit' = 0
            /\ ppc' = "idle"
    /\ UNCHANGED <<hvars, lvars, wvars, evars, pch, npush, cvars, fvars, gvars>>

\* if(event->event_queue.size() < 4), read before the mutex is taken
push_check ==
    /\ ~halted
    /\ UNCHANGED pollvars
    /\ UNCHANGED rvars
    /\ UNCHANGED qvars
    /\ ppc = "chk"
    /\ ppc' = IF Len(event_queue[get_instances("KeyEvent")[pit]]) < QueueCap THEN "push" ELSE "notify"
    /\ UNCHANGED <<hvars, lvars, wvars, evars, pit, pch, npush, cvars, fvars, gvars>>

\* push_back that puts the value at the front of the deque
push_front ==
    /\ ~halted
    /\ UNCHANGED pollvars
    /\ UNCHANGED rvars
    /\ ppc = "push"
    /\ event_queue' = [event_queue EXCEPT ![get_instances("KeyEvent")[pit]] = <<pch>> \o @]
    /\ accepted' = [accepted EXCEPT ![get_instances("KeyEvent")[pit]] = Append(@, pch)]
    /\ UNCHANGED <<refire, recorded>>
    /\ ppc' = "notify"
    /\ UNCHANGED <<hvars, lvars, wvars, cv, instances, pit, pch, npush, cvars, fvars, gvars>>

\* m.lock(); event_queue.push_back(c); m.unlock()
push_back ==
    /\ ~halted
    /\ UNCHANGED pollvars
    /\ UNCHANGED rvars
    /\ ppc = "push"
    /\ event_queue' = [event_queue EXCEPT ![get_instances("KeyEvent")[pit]] = Append(@, pch)]
    /\ accepted' = [accepted EXCEPT ![get_instances("KeyEvent")[pit]] = Append(@, pch)]
    /\ UNCHANGED <<refire, recorded>>
    /\ ppc' = "notify"
    /\ UNCHANGED <<hvars, lvars, wvars, cv, instances, pit, pch, npush, cvars, fvars, gvars>>

\* event->internal(): notify_one on the bound condition variable, if any;
\* then the next instance of the registry
internal ==
    /\ ~halted
    /\ UNCHANGED pollvars
    /\ UNCHANGED rvars
    /\ UNCHANGED qvars
    /\ ppc = "notify"
    /\ LET e == get_instances("KeyEvent")[pit] IN
       /\ pc' = IF cv[e] # NULL THEN notify_one(cv[e], pc) ELSE pc
       /\ notified' = [notified EXCEPT ![e] = cv[e] # NULL /\ trigger(e)]
    /\ IF pit < Len(get_instances("KeyEvent"))
       THEN /\ pit' = pit + 1
            /\ ppc' = "chk"
       ELSE /\ pit' = 0
            /\ ppc' = "idle"
    /\ UNCHANGED <<hvars, lvars, event, idx, iter, evars, pch, npush, cvars, fvars,
                   trace, scanned, hcall, lcall, lastSS>>

\* the calls of push made by the application: at most max of them, the
\* n-th with the character n
Push(max) ==
    \E c \in Chars : c = npush + 1 /\ npush < max /\ PushAllowed /\ push_call(c)

Producer ==
    \/ Push(MaxPush)
    \/ push_check
    \/ push_back
    \/ internal


\* ------------------------------------------- Listener::start / stop
\* Listener::start without the test of the flag
Listener_start_always(l) ==
    /\ lcall' = [op |-> "start", arg |-> l, was_running |-> running[l], before |-> <<>>]
    /\ running' = [running EXCEPT ![l] = TRUE]
    /\ IF pc[l] = "none"
       THEN /\ pc' = [pc EXCEPT ![l] = "loop"]
            /\ UNCHANGED fvars
       ELSE /\ ub' = "terminate"
            /\ halted' = TRUE
            /\ UNCHANGED pc

\* Listener::start: spawns the worker unless the flag is set.  Assigning to
\* a std::thread that is still joinable calls std::terminate
Listener_start(l) ==
    /\ lcall' = [op |-> "start", arg |-> l, was_running |-> running[l], before |-> <<>>]
    /\ IF running[l]
       THEN UNCHANGED <<running, pc, fvars>>
       ELSE /\ running' = [running EXCEPT ![l] = TRUE]
            /\ IF pc[l] = "none"
               THEN /\ pc' = [pc EXCEPT ![l] = "loop"]
                    /\ UNCHANGED fvars
               ELSE /\ ub' = "terminate"
                    /\ halted' = TRUE
                    /\ UNCHANGED pc

\* Listener::stop that clears the flag and returns, without the notify and
\* the join
Listener_stop_nojoin(l, back) ==
    /\ lcall' = [op |-> "stop", arg |-> l, was_running |-> running[l], before |-> <<>>]
    /\ running' = [running EXCEPT ![l] = FALSE]
    /\ UNCHANGED <<cpc, cret>>

\* Listener::stop, lines 25 and 27: nothing if the flag is clear, else the
\* flag is cleared; notify_one and join are the two steps that follow.
\* `back` is where the caller goes on after stop() has returned
Listener_stop(l, back) ==
    /\ lcall' = [op |-> "stop", arg |-> l, was_running |-> running[l], before |-> <<>>]
    /\ IF running[l]
       THEN /\ running' = [running EXCEPT ![l] = FALSE]
            /\ cpc' = "notify"
            /\ cret' = back
       ELSE UNCHANGED <<running, cpc, cret>>

\* Listener::stop, line 28: this->cv.notify_one()
stop_notify ==
    /\ ~halted
    /\ UNCHANGED pollvars
    /\ UNCHANGED rvars
    /\ UNCHANGED qvars
    /\ cpc = "notify"
    /\ pc' = notify_one(listeners[ck], pc)
    /\ cpc' = "join"
    /\ UNCHANGED <<hvars, lvars, event, idx, iter, evars, pvars, ck, cret, ccleanup,
                   fvars, gvars>>

\* stop_join that does not wait for the thread function to return (a detach
\* in place of the join)
stop_join_nowait ==
    /\ ~halted
    /\ UNCHANGED pollvars
    /\ UNCHANGED rvars
    /\ UNCHANGED qvars
    /\ cpc = "join"
    /\ pc' = [pc EXCEPT ![listeners[ck]] = IF @ = "exited" THEN "none" ELSE @]
    /\ cpc' = cret
    /\ cret' = "idle"
    /\ ck' = ck + 1
    /\ alive' = IF cret = "deleting" THEN [alive EXCEPT ![listeners[ck]] = FALSE] ELSE alive
    /\ UNCHANGED <<hvars, running, event2func, event, idx, iter, evars, pvars,
                   ccleanup, fvars, gvars>>

\* Listener::stop, line 29: listener_thread.join() returns once the thread
\* function has returned; stop() then returns to the loop that called it,
\* and a destructor that called it ends the object's life
stop_join ==
    /\ ~halted
    /\ UNCHANGED pollvars
    /\ UNCHANGED rvars
    /\ UNCHANGED qvars
    /\ cpc = "join"
    /\ pc[listeners[ck]] = "exited"
    /\ pc' = [pc EXCEPT ![listeners[ck]] = "none"]
    /\ cpc' = cret
    /\ cret' = "idle"
    /\ ck' = ck + 1
    /\ alive' = IF cret = "deleting" THEN [alive EXCEPT ![listeners[ck]] = FALSE] ELSE alive
    /\ UNCHANGED <<hvars, running, event2func, event, idx, iter, evars, pvars,
                   ccleanup, fvars, gvars>>

\* ------------------------------------------------------ EventHandler
\* EventHandler::is_running
is_running == hrunning

\* the record of a call: its arguments and the state it found
Called(name, l) == [op |-> name, arg |-> l, was_running |-> hrunning, before |-> listeners]

\* EventHandler::start without the test of the flag
start_always ==
    /\ ~halted
    /\ UNCHANGED pollvars
    /\ UNCHANGED rvars
    /\ UNCHANGED qvars
    /\ cpc = "idle"
    /\ hcall' = Called("start", NULL)
    /\ lastSS' = "start"
    /\ hrunning' = TRUE
    /\ cpc' = "starting"
    /\ ck' = 1
    /\ UNCHANGED <<listeners, listener_type, lvars, wvars, evars, pvars, cret, ccleanup,
                   fvars, trace, scanned, lcall, notified>>

\* EventHandler::start, lines 18 and 20
start ==
    /\ ~halted
    /\ UNCHANGED pollvars
    /\ UNCHANGED rvars
    /\ UNCHANGED qvars
    /\ cpc = "idle"
    /\ hcall' = Called("start", NULL)
    /\ lastSS' = "start"
    /\ IF hrunning
       THEN UNCHANGED <<hrunning, cpc, ck>>
       ELSE /\ hrunning' = TRUE
            /\ cpc' = "starting"
            /\ ck' = 1
    /\ UNCHANGED <<listeners, listener_type, lvars, wvars, evars, pvars, cret, ccleanup,
                   fvars, trace, scanned, lcall, notified>>

\* EventHandler::start, lines 21 and 22: one l->start() of the loop, or its end
start_loop ==
    /\ ~halted
    /\ UNCHANGED pollvars
    /\ UNCHANGED rvars
    /\ UNCHANGED qvars
    /\ cpc = "starting"
    /\ IF ck > Len(listeners)
       THEN /\ cpc' = "idle"
            /\ ck' = 0
            /\ UNCHANGED <<running, pc, fvars, lcall>>
       ELSE /\ Listener_start(listeners[ck])
            /\ ck' = ck + 1
            /\ UNCHANGED cpc
    /\ UNCHANGED <<hvars, event2func, alive, event, idx, iter, evars, pvars, cret,
                   ccleanup, trace, scanned, hcall, lastSS, notified>>

\* the body of EventHandler::stop that leaves the flag set when the handler
\* has no listener
stop_body_keep(in_cleanup) ==
    /\ ccleanup' = in_cleanup
    /\ IF hrunning
       THEN /\ hrunning' = (listeners = <<>>)
            /\ cpc' = "stopping"
            /\ ck' = 1
       ELSE /\ cpc' = IF in_cleanup THEN "deleting" ELSE "idle"
            /\ ck' = IF in_cleanup THEN 1 ELSE 0
            /\ UNCHANGED hrunning

\* the body of EventHandler::stop, lines 28 and 30, entered from stop() or
\* from cleanup(); with the flag clear, cleanup goes on to its delete loop
stop_body(in_cleanup) ==
    /\ ccleanup' = in_cleanup
    /\ IF hrunning
       THEN /\ hrunning' = FALSE
            /\ cpc' = "stopping"
            /\ ck' = 1
       ELSE /\ cpc' = IF in_cleanup THEN "deleting" ELSE "idle"
            /\ ck' = IF in_cleanup THEN 1 ELSE 0
            /\ UNCHANGED hrunning

\* EventHandler::stop
stop ==
    /\ ~halted
    /\ UNCHANGED pollvars
    /\ UNCHANGED rvars
    /\ UNCHANGED qvars
    /\ cpc = "idle"
    /\ hcall' = Called("stop", NULL)
    /\ lastSS' = "stop"
    /\ stop_body(FALSE)
    /\ UNCHANGED <<listeners, listener_type, lvars, wvars, evars, pvars, cret,
                   fvars, trace, scanned, lcall, notified>>

\* stop_loop that returns at once: EventHandler::stop clears the flag of the
\* handler and stops no listener
stop_loop_skip ==
    /\ ~halted
    /\ UNCHANGED pollvars
    /\ UNCHANGED rvars
    /\ UNCHANGED qvars
    /\ cpc = "stopping"
    /\ cpc' = IF ccleanup THEN "deleting" ELSE "idle"
    /\ ck' = IF ccleanup THEN 1 ELSE 0
    /\ UNCHANGED <<running, cret, lcall>>
    /\ UNCHANGED <<hvars, event2func, alive, wvars, evars, pvars, ccleanup,
                   fvars, trace, scanned, hcall, lastSS, notified>>

\* stop_loop that leaves the loop after the first listener
stop_loop_first ==
    /\ ~halted
    /\ UNCHANGED pollvars
    /\ UNCHANGED rvars
    /\ UNCHANGED qvars
    /\ cpc = "stopping"
    /\ IF ck > Len(listeners) \/ ck > 1
       THEN /\ cpc' = IF ccleanup THEN "deleting" ELSE "idle"
            /\ ck' = IF ccleanup THEN 1 ELSE 0
            /\ UNCHANGED <<running, cret, lcall>>
       ELSE /\ Listener_stop(listeners[ck], "stopping")
            /\ ck' = IF running[listeners[ck]] THEN ck ELSE ck + 1
    /\ UNCHANGED <<hvars, event2func, alive, wvars, evars, pvars, ccleanup,
                   fvars, trace, scanned, hcall, lastSS, notified>>

\* EventHandler::stop, lines 31 and 32: one l->stop() of the loop, or its end
stop_loop ==
    /\ ~halted
    /\ UNCHANGED pollvars
    /\ UNCHANGED rvars
    /\ UNCHANGED qvars
    /\ cpc = "stopping"
    /\ IF ck > Len(listeners)
       THEN /\ cpc' = IF ccleanup THEN "deleting" ELSE "idle"
            /\ ck' = IF ccleanup THEN 1 ELSE 0
            /\ UNCHANGED <<running, cret, lcall>>
       ELSE /\ Listener_stop(listeners[ck], "stopping")
            /\ ck' = IF running[listeners[ck]] THEN ck ELSE ck + 1
    /\ UNCHANGED <<hvars, event2func, alive, wvars, evars, pvars, ccleanup,
                   fvars, trace, scanned, hcall, lastSS, notified>>

\* EventHandler::cleanup, line 38: this->stop()
cleanup ==
    /\ ~halted
    /\ UNCHANGED pollvars
    /\ UNCHANGED rvars
    /\ UNCHANGED qvars
    /\ cpc = "idle"
    /\ hcall' = Called("cleanup", NULL)
    /\ lastSS' = "stop"
    /\ stop_body(TRUE)
    /\ UNCHANGED <<listeners, listener_type, lvars, wvars, evars, pvars, cret,
                   fvars, trace, scanned, lcall, notified>>

\* Event<T>::~Event of the member events of l: instances.erase(instance_iter)
Erased(insts, l) ==
    SelectSeq(insts, LAMBDA e :
        \A n \in 1..Len(member_events(l)) : member_events(l)[n] # e)

\* cleanup_loop that ignores the ownership mode and deletes nothing
cleanup_loop_nodelete ==
    /\ ~halted
    /\ UNCHANGED pollvars
    /\ UNCHANGED rvars
    /\ UNCHANGED qvars
    /\ cpc = "deleting"
    /\ listeners' = <<>>
    /\ cpc' = "idle"
    /\ ck' = 0
    /\ ccleanup' = FALSE
    /\ UNCHANGED <<running, alive, cret, fvars, lcall, instances>>
    /\ UNCHANGED <<hrunning, listener_type, event2func, wvars, event_queue, cv, pvars,
                   trace, scanned, hcall, lastSS, notified>>

\* EventHandler::cleanup, lines 40 to 48: delete(l) for each listener of an
\* owning handler, then listeners.clear().  delete runs ~Listener, which
\* calls stop()
\* after the member events of the subclass are destroyed; deleting an object
\* twice is undefined
cleanup_loop ==
    /\ ~halted
    /\ UNCHANGED pollvars
    /\ UNCHANGED qvars
    /\ cpc = "deleting"
    /\ IF listener_type = "DYNAMIC_LISTENER" /\ ck <= Len(listeners)
       THEN LET l == listeners[ck] IN
            IF ~alive[l]
            THEN /\ ub' = "double_delete"
                 /\ halted' \in BOOLEAN
                 /\ ck' = ck + 1
                 /\ UNCHANGED <<listeners, running, alive, cpc, cret, ccleanup, lcall>>
                 /\ UNCHANGED <<instances, rvars>>
            ELSE /\ instances' = [instances EXCEPT !["KeyEvent"] = Erased(@, l)]
                 /\ estate' = [o \in Objs |-> IF owner(o) = l THEN "dead" ELSE estate[o]]
                 /\ instance_iter' = [o \in Objs |->
                                        IF owner(o) = l THEN NULL ELSE instance_iter[o]]
                 /\ UNCHANGED born
                 /\ Listener_stop(l, "deleting")
                 /\ ck' = IF running[l] THEN ck ELSE ck + 1
                 /\ alive' = IF running[l] THEN alive ELSE [alive EXCEPT ![l] = FALSE]
                 /\ UNCHANGED <<listeners, ccleanup, fvars>>
       ELSE /\ listeners' = <<>>
            /\ cpc' = "idle"
            /\ ck' = 0
            /\ ccleanup' = FALSE
            /\ UNCHANGED <<running, alive, cret, fvars, lcall, instances, rvars>>
    /\ UNCHANGED <<hrunning, listener_type, event2func, wvars, event_queue, cv, pvars,
                   trace, scanned, hcall, lastSS, notified>>

\* add_listener without the test of the running flag
add_listener_always(l) ==
    /\ ~halted
    /\ UNCHANGED pollvars
    /\ UNCHANGED rvars
    /\ UNCHANGED qvars
    /\ cpc = "idle"
    /\ hcall' = Called("add_listener", l)
    /\ listeners' = Append(listeners, l)
    /\ UNCHANGED <<hrunning, listener_type, lvars, wvars, evars, pvars, cvars,
                   fvars, trace, scanned, lcall, lastSS, notified>>

\* EventHandler::add_listener
add_listener(l) ==
    /\ ~halted
    /\ UNCHANGED pollvars
    /\ UNCHANGED rvars
    /\ UNCHANGED qvars
    /\ cpc = "idle"
    /\ hcall' = Called("add_listener", l)
    /\ listeners' = IF ~hrunning THEN Append(listeners, l) ELSE listeners
    /\ UNCHANGED <<hrunning, listener_type, lvars, wvars, evars, pvars, cvars,
                   fvars, trace, scanned, lcall, lastSS, notified>>

\* Listener::register_event: no test of the running flag.  The map and its
\* vectors are written without synchronisation, which is a data race with
\* the worker thread of l when that thread exists
register_event(l, e, f) ==
    /\ ~halted
    /\ UNCHANGED pollvars
    /\ UNCHANGED rvars
    /\ UNCHANGED qvars
    /\ cpc = "idle"
    /\ hcall' = [op |-> "register_event", arg |-> <<l, e, f>>,
                 was_running |-> running[l], before |-> event2func]
    /\ event2func' = [event2func EXCEPT ![l] = Registered(@, e, f)]
    /\ cv' = Bound(l, e, cv)
    /\ IF pc[l] = "none"
       THEN UNCHANGED fvars
       ELSE /\ ub' = "data_race"
            /\ halted' \in BOOLEAN
    /\ UNCHANGED <<hvars, running, alive, wvars, event_queue, instances, pvars, cvars,
                   trace, scanned, lcall, lastSS, notified>>

\* ---------------------------------------------- how the library is used
\* the number of calls of register_event made so far
RECURSIVE RegCount(_, _)
RegCount(l, n) ==
    IF n = 0 THEN 0 ELSE Len(event2func[l][EvOrder[n]]) + RegCount(l, n - 1)

TotalRegs == RegCount("L1", Len(EvOrder)) + RegCount("L2", Len(EvOrder))

\* a handler is given pointers to live listeners
AddAllowed(l) ==
    /\ alive[l]
    /\ hrunning \/ Len(listeners) < MaxListeners

\* instances are not destroyed while a push iterates over the registry
CleanupAllowed == ppc = "idle"

Controller ==
    \/ start
    \/ start_loop
    \/ stop
    \/ stop_loop
    \/ stop_notify
    \/ stop_join
    \/ CleanupAllowed /\ cleanup
    \/ cleanup_loop
    \/ \E l \in Listeners : AddAllowed(l) /\ add_listener(l)

Next ==
    \/ \E l \in Listeners : Worker(l)
    \/ \E l \in Listeners : spurious_wake(l)
    \/ Producer
    \/ Controller

Spec == Init /\ [][Next]_vars

\* registration alone: any event with any listener, any callback
NextReg ==
    \E l \in Listeners, e \in Events, f \in Funcs :
        TotalRegs < MaxReg /\ register_event(l, e, f)

SpecReg == InitReg /\ [][NextReg]_vars

\* bounds of the specifications with late or shared registration: calls of
\* register_event after construction, calls of push
MaxLate == 1

MaxPushFew == 1

\* the number of calls of register_event made by the constructors
InitRegs == Len(init_calls("L1")) + Len(init_calls("L2"))

\* a method of a listener subclass registers its first member event once
\* more, with any callback, while the listener is running
register_late ==
    \E l \in Listeners, f \in Funcs :
        /\ running[l]
        /\ TotalRegs < InitRegs + MaxLate
        /\ register_event(l, member_events(l)[1], f)

ProducerFew ==
    \/ Push(MaxPushFew)
    \/ push_check
    \/ push_back
    \/ internal

NextLate ==
    \/ \E l \in Listeners : Worker(l)
    \/ \E l \in Listeners : spurious_wake(l)
    \/ ProducerFew
    \/ Controller
    \/ register_late

SpecLate == Init /\ [][NextLate]_vars

NextShared ==
    \/ \E l \in Listeners : Worker(l)
    \/ \E l \in Listeners : spurious_wake(l)
    \/ ProducerFew
    \/ Controller

SpecShared == InitShared /\ [][NextShared]_vars

\* ------------------------------------------- one listener, three pushes
\* bound of the specification with one listener: calls of push
MaxPushFifo == 3

ProducerFifo ==
    \/ Push(MaxPushFifo)
    \/ push_check
    \/ push_back
    \/ internal

\* the handler is given one listener, and is started and stopped
ControllerFifo ==
    \/ start
    \/ start_loop
    \/ stop
    \/ stop_loop
    \/ stop_notify
    \/ stop_join
    \/ \E l \in Listeners : listeners = <<>> /\ add_listener(l)

NextFifo ==
    \/ \E l \in Listeners : Worker(l)
    \/ \E l \in Listeners : spurious_wake(l)
    \/ ProducerFifo
    \/ ControllerFifo

SpecFifo == Init /\ [][NextFifo]_vars

\* ------------------------------------------- one listener, full queues
\* bound of the specification in which queues fill up: calls of push
MaxPushFull == 5

ProducerFull ==
    \/ Push(MaxPushFull)
    \/ push_check
    \/ push_back
    \/ internal

NextFull ==
    \/ \E l \in Listeners : Worker(l)
    \/ \E l \in Listeners : spurious_wake(l)
    \/ ProducerFull
    \/ ControllerFifo

SpecFull == Init /\ [][NextFull]_vars

\* ------------------------------------------------- two producer threads
\* bound of the specification with two producers: calls of push
MaxPushTwo == 5

\* the KeyEvent instances of the registry
Registry == {get_instances("KeyEvent")[n] : n \in 1..Len(get_instances("KeyEvent"))}

\* A whole call KeyEvent::push(c) made by a second producer thread, which
\* runs it from the first instance to the last without being interrupted:
\* for each instance the size test, the push_back and internal()
push_other(c) ==
    /\ ~halted
    /\ UNCHANGED pollvars
    /\ UNCHANGED rvars
    /\ npush' = npush + 1
    /\ event_queue' = [e \in Events |->
                          IF e \in Registry /\ Len(event_queue[e]) < QueueCap
                          THEN Append(event_queue[e], c)
                          ELSE event_queue[e]]
    /\ accepted' = [e \in Events |->
                       IF e \in Registry /\ Len(event_queue[e]) < QueueCap
                       THEN Append(accepted[e], c)
                       ELSE accepted[e]]
    /\ pc' = [l \in Listeners |->
                 IF pc[l] = "waiting" /\ \E e \in Registry : cv[e] = l
                 THEN "pred"
                 ELSE pc[l]]
    /\ notified' = [e \in Events |->
                       IF e \in Registry
                       THEN cv[e] # NULL /\ Len(event_queue'[e]) > 0
                       ELSE notified[e]]
    /\ UNCHANGED <<refire, recorded>>
    /\ UNCHANGED <<hvars, lvars, event, idx, iter, cv, instances, ppc, pit, pch, cvars,
                   fvars, trace, scanned, hcall, lcall, lastSS>>

\* the calls of push of the two threads: MaxPushTwo of them in all, the n-th
\* with the character n
ProducerTwo ==
    \/ Push(MaxPushTwo)
    \/ push_check
    \/ push_back
    \/ internal
    \/ \E c \in Chars : c = npush + 1 /\ npush < MaxPushTwo /\ push_other(c)

NextTwo ==
    \/ \E l \in Listeners : Worker(l)
    \/ \E l \in Listeners : spurious_wake(l)
    \/ ProducerTwo
    \/ ControllerFifo

\* The example application after three calls push(1), push(2), push(3) made
\* before the handler is given a listener: every queue holds the three
\* characters and every event was notified
InitTwo ==
    /\ InitThreads
    /\ InitObjects
    /\ event2func = [l \in Listeners |-> Constructed(l, Len(init_calls(l)))]
    /\ cv = [e \in Events |-> owner(e)]
    /\ event_queue = [e \in Events |-> <<1, 2, 3>>]
    /\ npush = 3
    /\ notified = [e \in Events |-> TRUE]
    /\ accepted = [e \in Events |-> <<1, 2, 3>>]

SpecTwo == InitTwo /\ [][NextTwo]_vars

\* ------------------------------ the polling listener (release 1.2.0)
\* Listener::start of the polling listener: sets both flags and spawns a
\* detached thread, unless the flag running is set
Listener_start_poll(l) ==
    /\ lcall' = [op |-> "start", arg |-> l, was_running |-> running[l], before |-> <<>>]
    /\ IF running[l]
       THEN UNCHANGED <<running, thread_working, pc, fvars>>
       ELSE /\ running' = [running EXCEPT ![l] = TRUE]
            /\ thread_working' = [thread_working EXCEPT ![l] = TRUE]
            /\ IF pc[l] = "none"
               THEN /\ pc' = [pc EXCEPT ![l] = "ploop"]
                    /\ UNCHANGED fvars
               ELSE /\ ub' = "two_workers"
                    /\ halted' = TRUE
                    /\ UNCHANGED pc

\* Listener::stop of the polling listener, lines 56 and 58: nothing if the
\* flag is clear, else the flag is cleared and the caller goes on to spin
Listener_stop_poll(l, back) ==
    /\ lcall' = [op |-> "stop", arg |-> l, was_running |-> running[l], before |-> <<>>]
    /\ IF running[l]
       THEN /\ running' = [running EXCEPT ![l] = FALSE]
            /\ cpc' = "spin"
            /\ cret' = back
       ELSE UNCHANGED <<running, cpc, cret>>

\* the steps of the polling worker leave these alone
poll_frame ==
    UNCHANGED <<hvars, lvars, event, evars, pvars, cvars, fvars, scanned, hcall, lcall,
                lastSS, notified, qvars, rvars>>

\* while(l->running): a new pass begins, or the loop is left
poll_while(l) ==
    /\ ~halted
    /\ pc[l] = "ploop"
    /\ IF running[l]
       THEN /\ pc' = [pc EXCEPT ![l] = "pfor"]
            /\ iter' = [iter EXCEPT ![l] = 1]
       ELSE /\ pc' = [pc EXCEPT ![l] = "pend"]
            /\ iter' = [iter EXCEPT ![l] = 0]
    /\ trace' = [trace EXCEPT ![l] = <<>>]
    /\ evald' = [evald EXCEPT ![l] = <<>>]
    /\ UNCHANGED <<idx, thread_working, mcond, scond>>
    /\ poll_frame

\* AfterConditions with the reset inside the if of the callbacks
AfterConditions_both(m, s) == IF m /\ s THEN "pcall" ELSE "pfor"

\* where the worker goes after it has evaluated the two conditions
AfterConditions(m, s) == IF m /\ s THEN "pcall" ELSE IF m THEN "preset" ELSE "pfor"

\* the head of the for loop over event2func, and the two conditions of the
\* event at the iterator: both virtual functions are called, whatever the
\* first returns, and what they return is up to the event class
poll_for(l) ==
    /\ ~halted
    /\ pc[l] = "pfor"
    /\ IF iter[l] > Len(Keys(l))
       THEN /\ pc' = [pc EXCEPT ![l] = "psleep"]
            /\ iter' = [iter EXCEPT ![l] = 0]
            /\ UNCHANGED <<idx, mcond, scond, evald>>
       ELSE \E m \in BOOLEAN, s \in BOOLEAN :
            /\ mcond' = [mcond EXCEPT ![l] = m]
            /\ scond' = [scond EXCEPT ![l] = s]
            /\ evald' = [evald EXCEPT ![l] = Append(@, <<Keys(l)[iter[l]], m, s>>)]
            /\ pc' = [pc EXCEPT ![l] = AfterConditions(m, s)]
            /\ idx' = [idx EXCEPT ![l] = IF m /\ s THEN 1 ELSE 0]
            /\ iter' = [iter EXCEPT ![l] = IF m THEN @ ELSE @ + 1]
    /\ UNCHANGED <<trace, thread_working>>
    /\ poll_frame

\* for(EventFunc efunc : iter->second) efunc(*iter->first); then
\* if(main_condition), which is true here
poll_call(l) ==
    /\ ~halted
    /\ pc[l] = "pcall"
    /\ LET e == Keys(l)[iter[l]]
           fs == event2func[l][e]
       IN  IF idx[l] <= Len(fs)
           THEN /\ trace' = [trace EXCEPT ![l] =
                               Append(@, [op |-> "call", e |-> e, f |-> fs[idx[l]]])]
                /\ idx' = [idx EXCEPT ![l] = @ + 1]
                /\ UNCHANGED <<pc, iter>>
           ELSE /\ idx' = [idx EXCEPT ![l] = 0]
                /\ IF mcond[l]
                   THEN /\ pc' = [pc EXCEPT ![l] = "preset"]
                        /\ UNCHANGED iter
                   ELSE /\ pc' = [pc EXCEPT ![l] = "pfor"]
                        /\ iter' = [iter EXCEPT ![l] = @ + 1]
                /\ UNCHANGED trace
    /\ UNCHANGED pollvars
    /\ poll_frame

\* iter->first->reset(); iter++
poll_reset(l) ==
    /\ ~halted
    /\ pc[l] = "preset"
    /\ trace' = [trace EXCEPT ![l] =
                    Append(@, [op |-> "reset", e |-> Keys(l)[iter[l]], f |-> NULL])]
    /\ iter' = [iter EXCEPT ![l] = @ + 1]
    /\ pc' = [pc EXCEPT ![l] = "pfor"]
    /\ UNCHANGED idx
    /\ UNCHANGED pollvars
    /\ poll_frame

\* std::this_thread::sleep_for(l->listener_interval) returns
poll_sleep(l) ==
    /\ ~halted
    /\ pc[l] = "psleep"
    /\ pc' = [pc EXCEPT ![l] = "ploop"]
    /\ UNCHANGED <<idx, iter, trace>>
    /\ UNCHANGED pollvars
    /\ poll_frame

\* l->thread_working = false, and the thread function returns
poll_end(l) ==
    /\ ~halted
    /\ pc[l] = "pend"
    /\ thread_working' = [thread_working EXCEPT ![l] = FALSE]
    /\ pc' = [pc EXCEPT ![l] = "none"]
    /\ UNCHANGED <<idx, iter, trace, mcond, scond, evald>>
    /\ poll_frame

PollWorker(l) ==
    \/ poll_while(l)
    \/ poll_for(l)
    \/ poll_call(l)
    \/ poll_reset(l)
    \/ poll_sleep(l)
    \/ poll_end(l)

\* EventHandler::start, the loop: one l->start() of the polling listener
poll_start_loop ==
    /\ ~halted
    /\ cpc = "starting"
    /\ IF ck > Len(listeners)
       THEN /\ cpc' = "idle"
            /\ ck' = 0
            /\ UNCHANGED <<running, thread_working, pc, fvars, lcall>>
       ELSE /\ Listener_start_poll(listeners[ck])
            /\ ck' = ck + 1
            /\ UNCHANGED cpc
    /\ UNCHANGED <<hvars, event2func, alive, event, idx, iter, evars, pvars, cret,
                   ccleanup, trace, scanned, hcall, lastSS, notified, qvars, rvars,
                   mcond, scond, evald>>

\* EventHandler::stop, the loop: one l->stop() of the polling listener
poll_stop_loop ==
    /\ ~halted
    /\ cpc = "stopping"
    /\ IF ck > Len(listeners)
       THEN /\ cpc' = "idle"
            /\ ck' = 0
            /\ UNCHANGED <<running, cret, lcall>>
       ELSE /\ Listener_stop_poll(listeners[ck], "stopping")
            /\ ck' = IF running[listeners[ck]] THEN ck ELSE ck + 1
    /\ UNCHANGED <<hvars, event2func, alive, wvars, evars, pvars, ccleanup,
                   fvars, trace, scanned, hcall, lastSS, notified, qvars, rvars, pollvars>>

\* poll_stop_wait that does not look at thread_working
poll_stop_wait_nowait ==
    /\ ~halted
    /\ cpc = "spin"
    /\ cpc' = cret
    /\ cret' = "idle"
    /\ ck' = ck + 1
    /\ UNCHANGED <<hvars, lvars, wvars, evars, pvars, ccleanup, fvars, gvars, qvars,
                   rvars, pollvars>>

\* Listener::stop of the polling listener, line 59: while(thread_working);
\* is left once the worker has cleared the flag, and stop() returns
poll_stop_wait ==
    /\ ~halted
    /\ cpc = "spin"
    /\ ~thread_working[listeners[ck]]
    /\ cpc' = cret
    /\ cret' = "idle"
    /\ ck' = ck + 1
    /\ UNCHANGED <<hvars, lvars, wvars, evars, pvars, ccleanup, fvars, gvars, qvars,
                   rvars, pollvars>>

ControllerPoll ==
    \/ start
    \/ poll_start_loop
    \/ stop
    \/ poll_stop_loop
    \/ poll_stop_wait
    \/ \E l \in Listeners : AddAllowed(l) /\ add_listener(l)

NextPoll ==
    \/ \E l \in Listeners : PollWorker(l)
    \/ ControllerPoll

SpecPoll == Init /\ [][NextPoll]_vars

\* the scheduler runs every worker and lets a call of the handler's API that
\* has begun go on; callbacks and sleep_for return
FairSpecPoll ==
    /\ SpecPoll
    /\ \A l \in Listeners : WF_vars(PollWorker(l))
    /\ WF_vars(poll_start_loop \/ poll_stop_loop \/ poll_stop_wait)

\* ------------------------------------------------ the instance registry
\* bound of the registry specification: constructions of event objects
MaxBorn == 4

\* everything but the registries and the event objects
registry_frame ==
    UNCHANGED <<hvars, lvars, wvars, event_queue, cv, pvars, cvars, gvars, qvars>>

\* Event<T>::Event(): instances.push_back(this); instance_iter = --end()
Event_construct(o) ==
    /\ ~halted
    /\ UNCHANGED pollvars
    /\ estate[o] = "none"
    /\ Len(born) < MaxBorn
    /\ estate' = [estate EXCEPT ![o] = "live"]
    /\ instances' = [instances EXCEPT ![registry_of(o)] = Append(@, o)]
    /\ instance_iter' = [instance_iter EXCEPT ![o] = o]
    /\ born' = Append(born, o)
    /\ UNCHANGED fvars
    /\ registry_frame

\* The copy constructor of Event<T>, which the class does not delete and the
\* compiler generates: the members are copied, instance_iter among them,
\* and nothing is pushed.  A KeyEvent holds a mutex and cannot be copied
Event_copy(o, src) ==
    /\ ~halted
    /\ UNCHANGED pollvars
    /\ estate[o] = "none"
    /\ estate[src] = "live"
    /\ type_of(o) = type_of(src)
    /\ type_of(src) # "KeyEvent"
    /\ Len(born) < MaxBorn
    /\ estate' = [estate EXCEPT ![o] = "live"]
    /\ instance_iter' = [instance_iter EXCEPT ![o] = instance_iter[src]]
    /\ born' = Append(born, o)
    /\ UNCHANGED <<instances, fvars>>
    /\ registry_frame

\* Event<T>::~Event(): instances.erase(instance_iter); erasing through an
\* iterator whose node is no longer in the list is undefined
Event_destroy(o) ==
    /\ ~halted
    /\ UNCHANGED pollvars
    /\ estate[o] = "live"
    /\ LET T == registry_of(o)
           n == instance_iter[o]
       IN  IF \E i \in 1..Len(instances[T]) : instances[T][i] = n
           THEN /\ instances' = [instances EXCEPT ![T] = erase(@, n)]
                /\ UNCHANGED fvars
           ELSE /\ ub' = "erase_invalid"
                /\ halted' \in BOOLEAN
                /\ UNCHANGED instances
    /\ estate' = [estate EXCEPT ![o] = "dead"]
    /\ instance_iter' = [instance_iter EXCEPT ![o] = NULL]
    /\ UNCHANGED born
    /\ registry_frame

\* no event object exists yet
InitRegistry ==
    /\ InitRest
    /\ event2func = [l \in Listeners |-> EmptyTable]
    /\ cv = [e \in Events |-> NULL]
    /\ instances = [T \in Types |-> <<>>]
    /\ estate = [o \in Objs |-> "none"]
    /\ instance_iter = [o \in Objs |-> NULL]
    /\ born = <<>>

NextRegistry ==
    \/ \E o \in Objs : Event_construct(o)
    \/ \E o \in Objs, src \in Objs : Event_copy(o, src)
    \/ \E o \in Objs : Event_destroy(o)

SpecRegistry == InitRegistry /\ [][NextRegistry]_vars

\* a call of the API that has begun goes on, as does a push that has begun
ControllerStep ==
    start_loop \/ stop_loop \/ stop_notify \/ stop_join \/ cleanup_loop

ProducerStep == push_check \/ push_back \/ internal

\* The scheduler runs every thread that can take a step: each worker, the
\* controller inside a call and the producer inside a push.  Nothing makes a
\* new call or a new push happen, and no spurious wakeup is promised.
FairSpec ==
    /\ Spec
    /\ \A l \in Listeners : WF_vars(Worker(l))
    /\ WF_vars(ControllerStep)
    /\ WF_vars(ProducerStep)


\* ====================================================================
\* Properties
\* ====================================================================
IsPrefix(s, t) == Len(s) <= Len(t) /\ \A n \in 1..Len(s) : s[n] = t[n]

\* what one dispatch of event e by listener l has to do, in order
Calls(l, e) ==
    [n \in 1..Len(event2func[l][e]) |->
        [op |-> "call", e |-> e, f |-> event2func[l][e][n]]]

Expected(l, e) == Append(Calls(l, e), [op |-> "reset", e |-> e, f |-> NULL])

\* C1: every dispatch of an event by a blocking listener invokes the
\* event's callbacks once each in registration order and then resets the
\* event once, before the worker comes back to the head of its loop: the
\* calls of a cycle are always a prefix of f1..fn, reset; when reset is due
\* all of f1..fn have run; when the cycle ends the whole list has run.
C1_DispatchOrder ==
    \A l \in Listeners :
        /\ pc[l] = "call" =>
              /\ event[l] # NULL
              /\ trace[l] = SubSeq(Calls(l, event[l]), 1, idx[l] - 1)
        /\ pc[l] = "reset" => trace[l] = Calls(l, event[l])
        /\ (pc[l] \notin {"call", "reset"} /\ trace[l] # <<>>) =>
              /\ pc[l] = "loop"
              /\ trace[l] = Expected(l, event[l])

\* C1 witness: the worker of L2 is back at the head of its loop after one
\* dispatch of E3, with both callbacks called in order and one reset
C1_Witness ==
    /\ pc["L2"] = "loop"
    /\ trace["L2"] = << [op |-> "call", e |-> "E3", f |-> "on_keybd1"],
                        [op |-> "call", e |-> "E3", f |-> "on_keybd2"],
                        [op |-> "reset", e |-> "E3", f |-> NULL] >>

\* the controller is inside Listener::stop of listener l, past the clearing
\* of the flag
InStop(l) == cpc \in {"notify", "join"} /\ listeners[ck] = l

\* C4: while a dispatch is in flight and the flag has been cleared, the
\* stop() that cleared it has not returned, and the dispatch goes on as
\* without the stop: reset is reached only after every callback has run.
C4_StopWaitsForDispatch ==
    \A l \in Listeners :
        /\ (pc[l] \in {"call", "reset"} /\ ~running[l]) => InStop(l)
        /\ (pc[l] = "reset" /\ ~running[l]) => trace[l] = Calls(l, event[l])

\* C4 witness: stop() of L2 is blocked in join while the first of the two
\* callbacks of E3 has run and the second and the reset have not
C4_Witness ==
    /\ cpc = "join"
    /\ listeners[ck] = "L2"
    /\ ~running["L2"]
    /\ pc["L2"] = "call"
    /\ idx["L2"] = 2

\* C5: in a cycle one event is serviced, the first one in table order that
\* the scan found triggered: every event before it in the table was found
\* untriggered by this scan, and all calls and the reset of the cycle are
\* for this event.
C5_FirstTriggeredOnly ==
    \A l \in Listeners :
        trace[l] # <<>> =>
            /\ event[l] # NULL
            /\ \A n \in 1..Len(trace[l]) : trace[l][n].e = event[l]
            /\ \A n \in 1..(KeyPos(l, event[l]) - 1) : Keys(l)[n] \in scanned[l]
            /\ event[l] \notin scanned[l]

\* C5 witness: L1 has serviced E1 (callback and reset) and is back at the
\* head of the loop while E2 is triggered too; nothing was done for E2
C5_Witness ==
    /\ pc["L1"] = "loop"
    /\ trace["L1"] = Expected("L1", "E1")
    /\ trigger("E2")

\* C6: a worker that finds the flag cleared after waking (in the predicate
\* or in the test after the wait) goes on to leave the loop: it calls no
\* callback and resets no event, also when an event of its table is
\* triggered.
C6_ExitWithoutDispatch ==
    [][\A l \in Listeners :
          (~running[l] /\ pc[l] \in {"pred", "check"}) =>
              /\ pc'[l] \in {pc[l], IF pc[l] = "pred" THEN "check" ELSE "loop"}
              /\ trace'[l] = <<>>
              /\ \A e \in Events :
                    event2func[l][e] # <<>> =>
                        Len(event_queue'[e]) >= Len(event_queue[e])]_vars

\* C6 witness: the wait of L1 has ended on the cleared flag, with no event
\* returned, while E1 is triggered
C6_Witness ==
    /\ pc["L1"] = "check"
    /\ ~running["L1"]
    /\ event["L1"] = NULL
    /\ trigger("E1")


\* C2: once a producer has made an event triggered and called notify on it
\* (internal), the running listener the event is bound to dispatches it,
\* unless the listener is stopped.
C2_NotifiedIsDispatched ==
    \A e \in Events :
        (notified[e] /\ running[cv[e]])
            ~> (~notified[e] \/ ~running[cv[e]])

\* C3: Listener::stop of a running listener returns: once the flag is
\* cleared, the notify and the join complete.
C3_StopReturns ==
    (cpc \in {"notify", "join"}) ~> (cpc \notin {"notify", "join"})


\* C7: a call register_event(e, f) on a listener appends f to the callbacks
\* of e in that listener's table: what was registered for e before stays in
\* front, in its order, and the entries of the other events and the tables
\* of the other listeners are as before.
C7_RegistrationAccumulates ==
    hcall.op = "register_event" =>
        LET l == hcall.arg[1]
            e == hcall.arg[2]
            f == hcall.arg[3]
            now == event2func[l][e]
        IN  /\ now # <<>>
            /\ now[Len(now)] = f
            /\ SubSeq(now, 1, Len(now) - 1) = hcall.before[l][e]
            /\ \A l2 \in Listeners, e2 \in Events :
                  (l2 # l \/ e2 # e) => event2func[l2][e2] = hcall.before[l2][e2]

\* C7 witness: E1 was registered on L1 with on_keybd1 and then on_keybd2,
\* after E2 had been registered on L1
C7_Witness ==
    /\ hcall.op = "register_event"
    /\ hcall.arg = <<"L1", "E1", "on_keybd2">>
    /\ event2func["L1"]["E1"] = <<"on_keybd1", "on_keybd2">>
    /\ event2func["L1"]["E2"] # <<>>

\* the observable state of the listeners and events
lstate == <<running, event2func, alive, pc, event, event_queue, cv, ub, halted>>

\* C8: Listener::start of a listener whose flag is set, and Listener::stop
\* of one whose flag is clear, change nothing: no thread is spawned, nothing
\* is notified or joined, flag and table stay.
C8_StartStopIdempotent ==
    [][/\ (cpc = "starting" /\ ck' = ck + 1 /\ running[listeners[ck]])
            => UNCHANGED lstate
       /\ (cpc = "stopping" /\ ck' = ck + 1 /\ ~running[listeners[ck]])
            => (UNCHANGED lstate /\ cpc' = "stopping")]_vars

\* C8 witness: the handler held L1 twice, was started and stopped: the
\* second start of L1 found it running, and the last stop found it idle
C8_Witness ==
    /\ listeners = <<"L1", "L1">>
    /\ hcall.op = "stop"
    /\ hcall.was_running
    /\ cpc = "idle"
    /\ lcall = [op |-> "stop", arg |-> "L1", was_running |-> FALSE, before |-> <<>>]

\* C9: add_listener(l) on a running handler changes neither the collection
\* nor the flag and does not start l; on a handler that is not running it
\* appends l at the end of the collection.
C9_AddListener ==
    [][\A l \in Listeners :
          add_listener(l) =>
              /\ hrunning => UNCHANGED <<listeners, hrunning, running, pc>>
              /\ ~hrunning => /\ listeners' = Append(listeners, l)
                              /\ UNCHANGED <<hrunning, running, pc>>]_vars

\* C9 witness: the last call was add_listener(L2) on a running handler that
\* holds L1 only
C9_Witness ==
    /\ hcall.op = "add_listener"
    /\ hcall.arg = "L2"
    /\ hcall.was_running
    /\ hcall.before = <<"L1">>
    /\ listeners = <<"L1">>
    /\ hrunning

\* C10: is_running() is true exactly when start() was called more recently
\* than stop() or cleanup(); it is false for a new handler.
C10_RunningFlag == is_running <=> lastSS = "start"

\* C10 witness: a running handler was cleaned up: the flag is clear
C10_Witness ==
    /\ hcall.op = "cleanup"
    /\ hcall.was_running
    /\ lastSS = "stop"
    /\ ~is_running

\* the listeners of the handler's collection
Collection == {listeners[n] : n \in 1..Len(listeners)}

\* C11: outside a call of start(), stop() or cleanup(), a running handler
\* has every listener of its collection Running (flag set, worker thread
\* alive), from the return of start() until stop() or cleanup() is called,
\* and a handler that is not running has every listener of its collection
\* Idle (flag clear, worker joined).
C11_HandlerListenersAgree ==
    cpc = "idle" =>
        \A l \in Collection :
            /\ running[l] = hrunning
            /\ hrunning => pc[l] \notin {"none", "exited"}
            /\ ~hrunning => pc[l] = "none"

\* C11 witness: stop() of a running handler with L1 and L2 has returned
\* after L2 had dispatched an event; both are idle
C11_Witness ==
    /\ cpc = "idle"
    /\ hcall.op = "stop"
    /\ hcall.was_running
    /\ listeners = <<"L1", "L2">>
    /\ ~running["L1"] /\ ~running["L2"]
    /\ ~trigger("E3")
    /\ npush > 0

\* C12: cleanup() stops the handler before it deletes anything, and when it
\* has returned the collection is empty and the handler is not running; an
\* owning handler (DYNAMIC_LISTENER) has destroyed every listener that was
\* in the collection, a borrowing one (STATIC_LISTENER) none: each is in the
\* state of a newly constructed listener (alive, idle, no worker thread, the
\* registration table and the bindings its constructor made, its events in
\* the registry), which is the state in which listeners are added and
\* started.
C12_Cleanup ==
    /\ cpc = "deleting" =>
          /\ ~hrunning
          /\ \A l \in Collection : alive[l] => (~running[l] /\ pc[l] = "none")
    /\ (hcall.op = "cleanup" /\ cpc = "idle") =>
          /\ listeners = <<>>
          /\ ~hrunning
          /\ \A n \in 1..Len(hcall.before) :
                LET l == hcall.before[n] IN
                IF listener_type = "DYNAMIC_LISTENER"
                THEN ~alive[l]
                ELSE /\ alive[l]
                     /\ ~running[l]
                     /\ pc[l] = "none"
                     /\ event2func[l] = Constructed(l, Len(init_calls(l)))
                     /\ \A k \in 1..Len(member_events(l)) :
                           /\ cv[member_events(l)[k]] = l
                           /\ estate[member_events(l)[k]] = "live"
                           /\ \E i \in 1..Len(get_instances("KeyEvent")) :
                                 get_instances("KeyEvent")[i] = member_events(l)[k]

\* C12 witness: a borrowing handler that held L1 and L2 has been cleaned up
\* while running, after L2 had dispatched E3 with both callbacks
C12_Witness ==
    /\ listener_type = "STATIC_LISTENER"
    /\ hcall.op = "cleanup"
    /\ hcall.was_running
    /\ hcall.before = <<"L1", "L2">>
    /\ cpc = "idle"
    /\ Len(recorded["E3"]) = 2

\* C13: a call of register_event made while the listener is Running leaves
\* every registration table as it was.
C13_LateRegistrationNoOp ==
    (hcall.op = "register_event" /\ hcall.was_running) => event2func = hcall.before

\* C14: when a dispatch cycle of an event has completed, the reset of the
\* cycle has left the event untriggered.
C14_ResetClearsTrigger == \A l \in Listeners : refire[l] = NULL

\* C16 as claimed: after a reset that left its event e triggered, the
\* following predicate evaluation returns e again.
C16_RefiresSameEvent ==
    [][\A l \in Listeners :
          (pc[l] = "scan" /\ pc'[l] # "scan" /\ refire[l] # NULL
              /\ refire[l] \notin scanned[l])
          => event'[l] = refire[l]]_vars

\* C16 as amended: after a reset that left its event e triggered, and unless
\* e was found untriggered since, the following predicate evaluation does
\* not block and returns e or an event before e in table order; never an
\* event after e.
C16_NoLaterEvent ==
    [][\A l \in Listeners :
          (pc[l] = "scan" /\ pc'[l] # "scan" /\ refire[l] # NULL
              /\ refire[l] \notin scanned[l])
          => /\ pc'[l] = "check"
             /\ event'[l] # NULL
             /\ KeyPos(l, event'[l]) >= 1
             /\ KeyPos(l, event'[l]) <= KeyPos(l, refire[l])]_vars

\* C16 witness: the reset of E1 by L1 left E1 triggered and the next
\* predicate evaluation has begun, while E2, behind E1 in the table, holds
\* two values of which none was dispatched
C16_Witness ==
    /\ pc["L1"] = "scan"
    /\ refire["L1"] = "E1"
    /\ trigger("E1")
    /\ Len(event_queue["E2"]) = 2
    /\ recorded["E2"] = <<>>

\* the listener that registered event e last
LastBinder(e) ==
    LET ns == {n \in 1..Len(shared_calls) : shared_calls[n][2] = e}
    IN  shared_calls[CHOOSE n \in ns : \A m \in ns : m <= n][1]

\* C15: an event is bound to the condition variable of the listener it was
\* registered with last, and a notify on the event (internal) wakes no
\* worker but that listener's: E2, registered with L1 and then with L2,
\* never wakes L1.
C15_LastBinderNotified ==
    [][/\ \A e \in Events : cv[e] = LastBinder(e)
       /\ internal =>
             \A l \in Listeners :
                 pc'[l] # pc[l] => (l = cv[get_instances("KeyEvent")[pit]] /\ l = LastBinder(get_instances("KeyEvent")[pit]))]_vars

\* C15 witness: L1 serviced E1 and went back to waiting before E2 was
\* pushed; the notify on E2 went to L2, which is not running, and L1 stays
\* blocked with E2 triggered: no push is left to wake it
C15_Witness ==
    /\ running["L1"]
    /\ pc["L1"] = "waiting"
    /\ pc["L2"] = "none"
    /\ event2func["L1"]["E2"] # <<>>
    /\ cv["E2"] = "L2"
    /\ trigger("E2")
    /\ notified["E2"]
    /\ recorded["E1"] # <<>>
    /\ ppc = "idle"
    /\ npush = MaxPushFew

\* the events of the table of listener l
KeySet(l) == {e \in Events : event2func[l][e] # <<>>}

\* C17: the worker blocks only after a predicate evaluation that tested
\* every event of its table and found none triggered, and after a dispatch
\* it evaluates the predicate again before it can block: an event that was
\* triggered without a notify to this listener is dispatched on the next
\* wake, whatever caused the wake.
C17_BlocksOnlyAfterFullScan ==
    [][\A l \in Listeners :
          /\ (pc'[l] = "block" /\ pc[l] # "block") =>
                (pc[l] = "scan" /\ scanned[l] = KeySet(l))
          /\ (pc'[l] = "waiting" /\ pc[l] # "waiting") => pc[l] = "block"
          /\ (pc[l] = "reset" /\ pc'[l] # "reset") => pc'[l] = "loop"
          /\ (pc[l] = "loop" /\ pc'[l] # "loop") =>
                pc'[l] = (IF running[l] THEN "pred" ELSE "exited")]_vars

\* C17 witness: L1 has dispatched E2, whose notify goes to L2 (which never
\* ran), after it had dispatched E1, on whose notify it woke
C17_Witness ==
    /\ cv["E2"] = "L2"
    /\ pc["L2"] = "none"
    /\ recorded["E3"] = <<>>
    /\ recorded["E1"] # <<>>
    /\ pc["L1"] = "loop"
    /\ trace["L1"] = Expected("L1", "E2")

\* the live instances of type T in the order of their construction
LiveInOrder(T) == SelectSeq(born, LAMBDA o : estate[o] = "live" /\ type_of(o) = T)

\* C18: after any constructions and destructions the registry of each event
\* type holds exactly the live instances of the type, each once, in
\* construction order.
C18_RegistryMirrorsLifetime ==
    \A T \in Types : get_instances(T) = LiveInOrder(T)

RecordedBy(e, f) ==
    LET rs == SelectSeq(recorded[e], LAMBDA r : r[1] = f)
    IN  [n \in 1..Len(rs) |-> rs[n][2]]

\* the number of values that reset has removed from the queue of e
Popped(e) == Len(accepted[e]) - Len(event_queue[e])

\* C20: for a KeyEvent of a single listener the queue is the accepted
\* values that were not yet reset, in push order, and every registered
\* callback has read exactly the accepted values of the completed cycles,
\* in push order, each once, plus the front value if it was already called
\* in the cycle in progress; nothing is read twice or skipped.
C20_Fifo ==
    \A e \in Events :
        LET l == owner(e)
            fs == event2func[l][e]
        IN  /\ Popped(e) >= 0
            /\ event_queue[e] = SubSeq(accepted[e], Popped(e) + 1, Len(accepted[e]))
            /\ \A i, j \in 1..Len(accepted[e]) : i < j => accepted[e][i] < accepted[e][j]
            /\ \A k \in 1..Len(fs) :
                  LET called == /\ event[l] = e
                                /\ \/ pc[l] = "reset"
                                   \/ pc[l] = "call" /\ k < idx[l]
                  IN  RecordedBy(e, fs[k]) =
                          SubSeq(accepted[e], 1, Popped(e) + (IF called THEN 1 ELSE 0))

\* C20 witness: three values were pushed, L2 has completed one cycle for
\* each, both callbacks of E3 have recorded 1, 2, 3 and the queue is empty
C20_Witness ==
    /\ accepted["E3"] = <<1, 2, 3>>
    /\ RecordedBy("E3", "on_keybd1") = <<1, 2, 3>>
    /\ RecordedBy("E3", "on_keybd2") = <<1, 2, 3>>
    /\ event_queue["E3"] = <<>>
    /\ pc["L2"] = "loop"

\* the controller is inside EventHandler::stop, called by the application or
\* by cleanup(): in its loop or in one of the calls of Listener::stop it makes
InHandlerStop ==
    \/ cpc = "stopping"
    \/ cpc \in {"notify", "join"} /\ cret = "stopping"

\* C21: a step of a dispatch (a callback or a reset) is taken only while the
\* handler is running or inside its stop(): never before the first start(),
\* and never between the return of stop() and the next start(), whatever is
\* triggered and notified meanwhile.  In these periods no listener has a
\* worker thread at all.
C21_HandledOnlyWhileRunning ==
    [][/\ \A l \in Listeners :
             (listen_call(l) \/ listen_reset(l)) => (hrunning \/ InHandlerStop)
       /\ (~hrunning /\ ~InHandlerStop) =>
             \A l \in Listeners : pc[l] = "none" /\ pc'[l] \in {"none", "loop"}]_vars

\* C21 witness: the handler ran, L2 dispatched the value 1, stop() has
\* returned, and the value 2 was then pushed to E3 and notified; it stays in
\* the queue and L2 has no worker
C21_Witness ==
    /\ hcall.op = "stop"
    /\ hcall.was_running
    /\ cpc = "idle"
    /\ ~hrunning
    /\ RecordedBy("E3", "on_keybd2") = <<1>>
    /\ event_queue["E3"] = <<2>>
    /\ notified["E3"]
    /\ ppc = "idle"
    /\ pc["L2"] = "none"

\* C22: the worker thread of a listener exists only between start() and the
\* join inside stop().  An Idle listener (flag clear, no stop() in progress)
\* has no worker and a Running one has exactly one, which has not left its
\* loop; a worker is created only by a start() that found the listener Idle
\* and without a thread, and it ends only in the join of stop(), after which
\* the listener can be started again.
C22_WorkerLifetime ==
    [][\A l \in Listeners :
          /\ (~running[l] /\ ~InStop(l)) => pc[l] = "none"
          /\ running[l] => pc[l] \notin {"none", "exited"}
          /\ (pc[l] = "none" /\ pc'[l] # "none") =>
                /\ cpc = "starting" /\ listeners[ck] = l
                /\ ~running[l] /\ running'[l]
                /\ pc'[l] = "loop"
          /\ (~running[l] /\ running'[l]) => (pc[l] = "none" /\ pc'[l] = "loop")
          /\ (pc[l] # "none" /\ pc'[l] = "none") =>
                (pc[l] = "exited" /\ cpc = "join" /\ listeners[ck] = l)]_vars

\* C22 witness: L2 ran and dispatched the value 1, was stopped, and has just
\* been started again by a start() that found the handler stopped: its new
\* worker is at the head of the loop
C22_Witness ==
    /\ hcall.op = "start"
    /\ ~hcall.was_running
    /\ lcall.op = "start" /\ lcall.arg = "L2" /\ ~lcall.was_running
    /\ running["L2"]
    /\ pc["L2"] = "loop"
    /\ trace["L2"] = <<>>
    /\ RecordedBy("E3", "on_keybd2") = <<1>>

\* C23: EventHandler::start on a running handler and EventHandler::stop on a
\* handler that is not running return at once: the flag keeps its value, no
\* Listener::start or Listener::stop is called, and the collection, the
\* listeners and their workers are as before.
C23_HandlerStartStopIdempotent ==
    [][/\ (start /\ hrunning) =>
             /\ hrunning' /\ cpc' = "idle"
             /\ UNCHANGED <<listeners, lcall, lstate>>
       /\ (stop /\ ~hrunning) =>
             /\ ~hrunning' /\ cpc' = "idle"
             /\ UNCHANGED <<listeners, lcall, lstate>>]_vars

\* C23 witness: start() was called on a running handler that holds L2; the
\* last call of a listener is still the start of L2 made by the first
\* start(), and L2 is blocked in its wait
C23_Witness ==
    /\ hcall.op = "start"
    /\ hcall.was_running
    /\ hcall.before = <<"L2">>
    /\ listeners = <<"L2">>
    /\ hrunning
    /\ cpc = "idle"
    /\ lcall = [op |-> "start", arg |-> "L2", was_running |-> FALSE, before |-> <<>>]
    /\ pc["L2"] = "waiting"

\* the position of KeyEvent e in the registry (0 if it is not in it)
RegPos(e) ==
    LET reg == get_instances("KeyEvent")
    IN  IF \E n \in 1..Len(reg) : reg[n] = e
        THEN CHOOSE n \in 1..Len(reg) : reg[n] = e
        ELSE 0

\* the number of calls of push that have made their decision (append or
\* drop) for instance e: all calls made, less the one in progress if it has
\* not got past its test for e
Decided(e) ==
    IF \/ ppc = "idle"
       \/ RegPos(e) < pit
       \/ RegPos(e) = pit /\ ppc = "notify"
    THEN npush
    ELSE npush - 1

\* the characters that push has dropped for instance e
Dropped(e) ==
    {c \in 1..Decided(e) : \A n \in 1..Len(accepted[e]) : accepted[e][n] # c}

\* C24: one call of push goes through the registry of KeyEvent in order and,
\* for each instance, tests the queue, appends the character if the queue
\* holds fewer than 4 values and leaves the queue alone if it holds 4, and
\* then calls internal on the instance in either case, before it goes on to
\* the next instance.  Over the calls: each instance has accepted the
\* characters pushed in order, each at most once; a character is missing for
\* an instance only if the instance had accepted 4 before it; an instance
\* that was never reset has accepted the first 4 characters and no more.
C24_PushBroadcast ==
    [][/\ \A e \in Events :
             /\ \A n \in 1..Len(accepted[e]) : accepted[e][n] \in 1..Decided(e)
             /\ \A i, j \in 1..Len(accepted[e]) : i < j => accepted[e][i] < accepted[e][j]
             /\ \A c \in Dropped(e) :
                   Cardinality({n \in 1..Len(accepted[e]) : accepted[e][n] < c}) >= QueueCap
             /\ Popped(e) = 0 =>
                   /\ event_queue[e] = accepted[e]
                   /\ Len(accepted[e]) = (IF Decided(e) < QueueCap THEN Decided(e) ELSE QueueCap)
       /\ (ppc = "idle" /\ ppc' # "idle") => (ppc' = "chk" /\ pit' = 1 /\ pch' = npush')
       /\ ppc = "chk" =>
             LET e == get_instances("KeyEvent")[pit] IN
             \/ UNCHANGED <<ppc, pit>>
             \/ /\ ppc' = (IF Len(event_queue[e]) < QueueCap THEN "push" ELSE "notify")
                /\ UNCHANGED <<pit, pch, event_queue>>
       /\ ppc = "push" =>
             LET e == get_instances("KeyEvent")[pit] IN
             \/ UNCHANGED <<ppc, pit>>
             \/ /\ ppc' = "notify"
                /\ accepted' = [accepted EXCEPT ![e] = Append(@, pch)]
                /\ \A e2 \in Events \ {e} : event_queue'[e2] = event_queue[e2]
                /\ UNCHANGED <<pit, pch>>
       /\ ppc = "notify" =>
             LET e == get_instances("KeyEvent")[pit] IN
             \/ UNCHANGED <<ppc, pit>>
             \/ /\ pc'[cv[e]] # "waiting"
                /\ UNCHANGED <<event_queue, accepted>>
                /\ IF pit < Len(get_instances("KeyEvent"))
                   THEN ppc' = "chk" /\ pit' = pit + 1
                   ELSE ppc' = "idle"]_vars

\* C24 witness: five characters were pushed while L2 alone was running: E1
\* and E2, which nobody reset, hold the first four and have dropped the
\* fifth; E3 has accepted all five; the last call notified E1, which was
\* full, and has returned
C24_Witness ==
    /\ npush = 5
    /\ ppc = "idle"
    /\ event_queue["E1"] = <<1, 2, 3, 4>>
    /\ event_queue["E2"] = <<1, 2, 3, 4>>
    /\ Dropped("E1") = {5}
    /\ accepted["E3"] = <<1, 2, 3, 4, 5>>
    /\ notified["E1"]
    /\ notified["E3"]

\* C25: the queue of a KeyEvent never holds more than 4 values.
C25_QueueBound == \A e \in Events : Len(event_queue[e]) <= QueueCap

\* what the polling worker of l does for an event whose conditions it has
\* evaluated as c = <<e, main_condition, sub_condition>>
Service(l, c) ==
    (IF c[2] /\ c[3] THEN Calls(l, c[1]) ELSE <<>>)
        \o (IF c[2] THEN <<[op |-> "reset", e |-> c[1], f |-> NULL]>> ELSE <<>>)

\* what a scan pass does for the events it has evaluated, in order
RECURSIVE PassOf(_, _)
PassOf(l, cs) ==
    IF cs = <<>> THEN <<>>
    ELSE PassOf(l, SubSeq(cs, 1, Len(cs) - 1)) \o Service(l, cs[Len(cs)])

\* C26: a scan pass of the polling listener evaluates the events of the
\* table in table order, each once, and for each of them calls all its
\* callbacks in registration order if and only if main_condition and
\* sub_condition were both true, and then reset if and only if
\* main_condition was true, before it goes on to the next event; the pass
\* ends (sleep_for) only when every event of the table was evaluated and
\* serviced so.
C26_PollingPass ==
    \A l \in Listeners :
        LET cs == evald[l]
            n == Len(cs)
        IN  /\ n <= Len(Keys(l))
            /\ \A k \in 1..n : cs[k][1] = Keys(l)[k]
            /\ pc[l] = "pfor" => (iter[l] = n + 1 /\ trace[l] = PassOf(l, cs))
            /\ pc[l] = "psleep" => (n = Len(Keys(l)) /\ trace[l] = PassOf(l, cs))
            /\ pc[l] = "pcall" =>
                  /\ n = iter[l] /\ cs[n][2] /\ cs[n][3]
                  /\ trace[l] = PassOf(l, SubSeq(cs, 1, n - 1))
                                    \o SubSeq(Calls(l, cs[n][1]), 1, idx[l] - 1)
            /\ pc[l] = "preset" =>
                  /\ n = iter[l] /\ cs[n][2]
                  /\ trace[l] = PassOf(l, SubSeq(cs, 1, n - 1))
                                    \o (IF cs[n][3] THEN Calls(l, cs[n][1]) ELSE <<>>)

\* C26 witness: a pass of L1 is complete in which E1 had main_condition true
\* and sub_condition false and E2 had both true: E1 was reset without a
\* callback, and E2 was serviced in the same pass
C26_Witness ==
    /\ pc["L1"] = "psleep"
    /\ evald["L1"] = << <<"E1", TRUE, FALSE>>, <<"E2", TRUE, TRUE>> >>
    /\ trace["L1"] = << [op |-> "reset", e |-> "E1", f |-> NULL],
                        [op |-> "call", e |-> "E2", f |-> "on_keybd2"],
                        [op |-> "reset", e |-> "E2", f |-> NULL] >>

\* the controller is inside Listener::stop of the polling listener l, past
\* the clearing of the flag
InStopPoll(l) == cpc = "spin" /\ listeners[ck] = l

\* C27: stop() of a running polling listener returns only when the worker
\* has left its loop and cleared thread_working; the worker leaves the loop
\* only at its head, that is between two scan passes, so the pass in
\* progress is completed; once stop() has returned the listener has no
\* worker and no pass begins before the next start(); and with a fair
\* scheduler, callbacks and sleeps that return, stop() does return.
C27_PollingStop ==
    /\ [][/\ poll_stop_wait =>
                /\ pc[listeners[ck]] = "none"
                /\ ~thread_working[listeners[ck]]
          /\ \A l \in Listeners :
                /\ (pc'[l] = "pend" /\ pc[l] # "pend") => (pc[l] = "ploop" /\ ~running[l])
                /\ (pc'[l] = "pfor" /\ pc[l] = "ploop") => running[l]
                /\ (~running[l] /\ ~InStopPoll(l)) => (pc[l] = "none" /\ ~thread_working[l])
                /\ pc[l] # "none" => thread_working[l]]_vars
    /\ \A l \in Listeners : InStopPoll(l) ~> ~InStopPoll(l)

\* C27 witness: stop() of L1 spins on thread_working while the worker, with
\* the flag cleared, is in the middle of a pass: it is about to reset E1 and
\* has E2 still to visit
C27_Witness ==
    /\ InStopPoll("L1")
    /\ ~running["L1"]
    /\ thread_working["L1"]
    /\ pc["L1"] = "preset"
    /\ iter["L1"] = 1
    /\ trace["L1"] = Calls("L1", "E1")

\* C28: once stop() has cleared the flag of a blocking listener, the worker
\* begins no dispatch (it enters the callback loop from nowhere, the dispatch
\* it is in runs to its reset, and from the head of the loop it can only
\* exit, however many events are triggered), so that at most one dispatch is
\* completed after the flag was cleared; and the worker then exits.
C28_OneMoreDispatchThenExit ==
    /\ [][\A l \in Listeners :
             (~running[l] /\ pc[l] # "none") =>
                 /\ ~running'[l]
                 /\ pc'[l] = "call" => pc[l] = "call"
                 /\ pc'[l] = "reset" => pc[l] \in {"call", "reset"}
                 /\ pc[l] = "reset" => pc'[l] \in {"reset", "loop"}
                 /\ pc[l] = "loop" => pc'[l] \in {"loop", "exited"}
                 /\ pc[l] = "exited" => pc'[l] \in {"exited", "none"}]_vars
    /\ \A l \in Listeners :
          (~running[l] /\ pc[l] # "none") ~> (pc[l] \in {"exited", "none"})

\* C29: reset is invoked on an event only while the event is triggered: the
\* reset of a KeyEvent never finds its queue empty.
C29_ResetOnlyTriggered ==
    [][\A l \in Listeners : listen_reset(l) => trigger(event[l])]_vars

\* the last n entries of what the callbacks of event e have read
LastRecorded(e, n) == SubSeq(recorded[e], Len(recorded[e]) - n + 1, Len(recorded[e]))

\* C30: while a listener dispatches a KeyEvent that is registered with it
\* alone, the queue of the event is not empty; each callback that has run in
\* this dispatch has read the value that is at the front of the queue, the
\* same for all of them, whatever was pushed meanwhile; the reset that
\* follows removes this value and no other; and get_char never fails.
C30_CallbacksSeeFront ==
    [][/\ ub # "terminate"
       /\ \A l \in Listeners :
             LET e == event[l]
                 fs == event2func[l][e]
             IN  /\ pc[l] = "call" =>
                       /\ event_queue[e] # <<>>
                       /\ Len(recorded[e]) >= idx[l] - 1
                       /\ LastRecorded(e, idx[l] - 1) =
                              [k \in 1..(idx[l] - 1) |-> <<fs[k], Head(event_queue[e])>>]
                 /\ pc[l] = "reset" =>
                       /\ event_queue[e] # <<>>
                       /\ Len(recorded[e]) >= Len(fs)
                       /\ LastRecorded(e, Len(fs)) =
                              [k \in 1..Len(fs) |-> <<fs[k], Head(event_queue[e])>>]
                 /\ listen_reset(l) =>
                       /\ Len(event_queue'[e]) = Len(event_queue[e]) - 1
                       /\ \A n \in 1..Len(event_queue'[e]) :
                             event_queue'[e][n] = event_queue[e][n + 1]]_vars

\* C30 witness: both callbacks of E3 have run in a dispatch by L2 and have
\* read 1, the front of the queue, while a fourth value was pushed behind
\* the three that were queued; the reset is next
C30_Witness ==
    /\ pc["L2"] = "reset"
    /\ event["L2"] = "E3"
    /\ recorded["E3"] = << <<"on_keybd1", 1>>, <<"on_keybd2", 1>> >>
    /\ Len(event_queue["E3"]) = 4
    /\ Head(event_queue["E3"]) = 1

\* C32: the cleanup() of an owning handler destroys every listener of its
\* collection once: no listener is deleted twice.
C32_NoDoubleDelete == ub # "double_delete"


\* C34: whenever a blocking worker is at its callbacks or at the reset, the
\* event pointer it uses is not null, the callback list of that event in its
\* table is not empty, and the event is the one the last evaluation of the
\* predicate returned (every key before it was tested and not triggered,
\* the event itself was found triggered); a wait that ended with the null
\* pointers ended on the cleared flag, so that the running check after it
\* is false; no null pointer is dereferenced.
C34_PointersFromPredicate ==
    /\ ub # "null_deref"
    /\ \A l \in Listeners :
          /\ pc[l] \in {"call", "reset"} =>
                /\ event[l] # NULL
                /\ event2func[l][event[l]] # <<>>
                /\ event[l] \notin scanned[l]
                /\ \A n \in 1..(KeyPos(l, event[l]) - 1) : Keys(l)[n] \in scanned[l]
          /\ (pc[l] = "check" /\ event[l] = NULL) => ~running[l]

\* C34 witness: L1 is at the callbacks of E2, which its predicate returned
\* after it had tested E1, and stop() has cleared the flag since the check
C34_Witness ==
    /\ pc["L1"] = "call"
    /\ event["L1"] = "E2"
    /\ "E1" \in scanned["L1"]
    /\ ~running["L1"]
    /\ cpc = "notify"


\* ------------------------- shared registration under an owning handler
\* the registrations of InitShared (key_event2 of MyListener registered with
\* MyListener2 as well, which binds it to the condition variable of
\* MyListener2) with a handler constructed with the default
\* DYNAMIC_LISTENER
InitSharedOwned ==
    /\ InitRest
    /\ InitObjects
    /\ listener_type = "DYNAMIC_LISTENER"
    /\ event2func = [l \in Listeners |-> TableAfter(l, Len(shared_calls))]
    /\ cv = BindingAfter(Len(shared_calls))

\* Event<T>::internal, line 206, on an event whose cv points into a listener
\* that was deleted: notify_one on a destroyed condition_variable is
\* undefined; it may also go unnoticed (internal)
notify_destroyed ==
    /\ ~halted
    /\ ppc = "notify"
    /\ LET e == get_instances("KeyEvent")[pit] IN
       /\ cv[e] # NULL
       /\ ~alive[cv[e]]
    /\ ub' = "notify_destroyed"
    /\ halted' \in BOOLEAN
    /\ UNCHANGED <<hvars, lvars, wvars, evars, pvars, cvars, gvars, qvars, rvars,
                   pollvars>>

NextSharedOwned ==
    \/ \E l \in Listeners : Worker(l)
    \/ \E l \in Listeners : spurious_wake(l)
    \/ ProducerFew
    \/ notify_destroyed
    \/ Controller

SpecSharedOwned == InitSharedOwned /\ [][NextSharedOwned]_vars

\* C33: every live event is unbound or bound to the condition variable of a
\* listener that is alive: once a listener is destroyed, no live event
\* references its condition variable, and internal never notifies a
\* destroyed listener.
C33_BoundToLiveListener ==
    /\ ub # "notify_destroyed"
    /\ \A e \in Events :
          (estate[e] = "live" /\ cv[e] # NULL) => alive[cv[e]]


\* ------------------------------ a listener destroyed by the application
\* the handler does not own the listeners: the application destroys them
InitDestroy ==
    /\ Init
    /\ listener_type = "STATIC_LISTENER"

\* the position of listener l in the collection of the handler
Pos(l) == CHOOSE n \in 1..Len(listeners) : listeners[n] = l

\* every pointer of the collection points to a listener that is alive
Intact == \A n \in 1..Len(listeners) : alive[listeners[n]]

\* the destruction of listener l (delete, or the end of its scope): the
\* destructor of the subclass runs first and destroys the member events
\* (Event<T>::~Event erases them from the registry), then
\* Listener::~Listener calls stop(), which joins a running worker
Listener_destroy(l) ==
    /\ ~halted
    /\ UNCHANGED pollvars
    /\ UNCHANGED qvars
    /\ cpc = "idle"
    /\ ppc = "idle"
    /\ alive[l]
    /\ instances' = [instances EXCEPT !["KeyEvent"] = Erased(@, l)]
    /\ estate' = [o \in Objs |-> IF owner(o) = l THEN "dead" ELSE estate[o]]
    /\ instance_iter' = [o \in Objs |-> IF owner(o) = l THEN NULL ELSE instance_iter[o]]
    /\ UNCHANGED born
    /\ Listener_stop(l, "destroyed")
    /\ ck' = IF running[l] THEN Pos(l) ELSE ck
    /\ alive' = IF running[l] THEN alive ELSE [alive EXCEPT ![l] = FALSE]
    /\ UNCHANGED <<hvars, event2func, wvars, event_queue, cv, pvars, ccleanup, fvars,
                   trace, scanned, hcall, lastSS, notified>>

\* Listener::~Listener after stop() has returned: the members of Listener
\* are destroyed and the object's life ends
destroy_end ==
    /\ ~halted
    /\ UNCHANGED pollvars
    /\ UNCHANGED qvars
    /\ UNCHANGED rvars
    /\ cpc = "destroyed"
    /\ alive' = [alive EXCEPT ![listeners[ck - 1]] = FALSE]
    /\ cpc' = "idle"
    /\ ck' = 0
    /\ UNCHANGED <<hvars, running, event2func, wvars, evars, pvars, cret, ccleanup,
                   fvars, gvars>>

\* the worker of l calls trigger, a callback or reset on an event that is
\* destroyed: undefined; it may also go unnoticed (the step of Worker)
use_destroyed(l) ==
    /\ ~halted
    /\ \/ /\ pc[l] = "scan"
          /\ iter[l] <= Len(Keys(l))
          /\ estate[Keys(l)[iter[l]]] = "dead"
       \/ /\ pc[l] \in {"call", "reset"}
          /\ event[l] # NULL
          /\ estate[event[l]] = "dead"
    /\ ub' = "use_after_destroy"
    /\ halted' \in BOOLEAN
    /\ UNCHANGED <<hvars, lvars, wvars, evars, pvars, cvars, gvars, qvars, rvars,
                   pollvars>>

\* the handler is used while its collection is intact; a listener is
\* destroyed at any time
ControllerDestroy ==
    \/ Intact /\ start
    \/ start_loop
    \/ Intact /\ stop
    \/ stop_loop
    \/ stop_notify
    \/ stop_join
    \/ \E l \in Listeners : Intact /\ AddAllowed(l) /\ add_listener(l)
    \/ \E l \in Listeners : Listener_destroy(l)
    \/ destroy_end

NextDestroy ==
    \/ \E l \in Listeners : Worker(l)
    \/ \E l \in Listeners : use_destroyed(l)
    \/ \E l \in Listeners : spurious_wake(l)
    \/ ProducerFew
    \/ ControllerDestroy

SpecDestroy == InitDestroy /\ [][NextDestroy]_vars

\* C31: a listener whose destruction has begun (its member events are
\* destroyed, or its life has ended) has no worker thread: the worker was
\* joined before, and no worker uses a destroyed event.
C31_JoinedBeforeDestroyed ==
    /\ ub # "use_after_destroy"
    /\ \A l \in Listeners :
          (~alive[l] \/ \E n \in 1..Len(member_events(l)) :
                           estate[member_events(l)[n]] = "dead")
              => pc[l] = "none"

=============================================================================
